---------------------------- MODULE Spec2Model ----------------------------
(***************************************************************************)
(* Report Analytics Engine of mulika-ufisadi.                              *)
(*                                                                         *)
(*   src/src/lib/ml/clustering.ts   K-means clustering of reports          *)
(*   src/src/lib/encryption.ts      text analysis of a report's text and   *)
(*                                  anomaly detection over a report batch  *)
(*                                                                         *)
(* Six specifications share this module:                                   *)
(*   Spec         one call of clusterReports(reports, k), followed step by *)
(*                step through kMeans / updateCentroids and the promise    *)
(*                callbacks that updateCentroids leaves behind;            *)
(*   SpecSimilar  one call of findSimilarReports, which awaits that call   *)
(*                with k = min(10, pool size);                             *)
(*   SpecAnomaly  one call of detectAnomalies(batch) at a wall-clock time; *)
(*   SpecText     one call of analyzeText(text) and one of                 *)
(*                calculateTextSimilarity(text, other);                    *)
(*   SpecGroups   one call of findSimilarReportsByText(docs, threshold);   *)
(*   SpecIsAnomalous  one call of detectAnomalies(batch) and one of        *)
(*                isReportAnomalous(subject, batch), subject in batch.     *)
(*                                                                         *)
(* TLC integers are 32 bits wide while the program computes with IEEE      *)
(* doubles, so every product that can exceed 2^31 is computed on BigNat    *)
(* values (little-endian limbs, base 1000).  The numbers of the program    *)
(* are IEEE 754 doubles, bit for bit: the amount detector's mean, standard *)
(* deviation and z-scores, every anomaly score, and the features of a      *)
(* report's vector.  The values of a tensor are float32, as tfjs stores    *)
(* them, and the tensor operations round as the CPU backend of tfjs does.  *)
(* The results of the text analysis are kept as exact fractions.           *)
(***************************************************************************)
EXTENDS Integers, Sequences, FiniteSets, TLC

VARIABLES
    \* ---- clusterReports(reports, k) ----
    reports,        \* the batch passed to clusterReports
    data,           \* rows of the data tensor, <<>> before tf.tensor2d
    k,              \* requested number of clusters
    pc,             \* position of the call
    iter,           \* kMeans loop counter
    centroids,      \* rows of the centroid tensor, indexed 0..
    assignments,    \* values of the assignments tensor, one per report
    newAssignments, \* values of the tensor assignToCentroids returned last
    hasChanged,     \* result of the convergence test of the last iteration
    newCentroids,   \* the list updateCentroids' callbacks push into
    pending,        \* cluster indices whose booleanMaskAsync callback has not run
    stackInput,     \* what tf.stack was given, <<"none">> before any update
    live,           \* tensors allocated by the call and not yet disposed
    thrown,         \* the error raised inside the try block
    error,          \* the error the caller of clusterReports receives
    clusters,       \* the value clusterReports resolves to
    \* ---- findSimilarReports(targetReport, reports, limit) ----
    targetReport,   \* the report to find similar reports for
    limit,          \* maximum number of similar reports
    fpc,            \* "off", or "await" while clusterReports runs, then "returned"
    similar,        \* the value findSimilarReports resolves to
    \* ---- detectAnomalies(batch) ----
    batch,          \* the reports passed to detectAnomalies
    now,            \* wall clock (hours) while the detectors run
    twoYears,       \* length in hours of the two calendar years before now
    apc,            \* "idle" before the call, "done" after it
    amountOut,      \* output of detectAmountAnomalies
    frequencyOut,   \* output of detectFrequencySpikes
    geographicOut,  \* output of detectGeographicAnomalies
    timingOut,      \* output of detectTimingAnomalies
    result,         \* the AnomalyDetectionResult
    \* ---- analyzeText(text), calculateTextSimilarity(text, other) ----
    moduleError,    \* what the evaluation of the text module threw, "none" before
    text,           \* the text passed to analyzeText, and text1 of the similarity
    other,          \* text2 of calculateTextSimilarity
    tpc,            \* position of the analyzeText call
    spc,            \* position of the calculateTextSimilarity call
    analysis,       \* the TextAnalysisResult
    similarity,     \* the value calculateTextSimilarity returns
    \* ---- findSimilarReportsByText(docs, threshold) ----
    docs,           \* the reports passed to findSimilarReportsByText
    threshold,      \* the similarity threshold
    gpc,            \* position of the findSimilarReportsByText call
    groups,         \* the groups findSimilarReportsByText returns
    \* ---- isReportAnomalous(subject, batch) ----
    subject,        \* the report passed to isReportAnomalous, <<>> before the call
    ipc,            \* "idle" before the call, "done" after it
    verdict         \* <<anomaly>> when an anomaly is returned, <<>> for null

cvars == <<reports, data, k, pc, iter, centroids, assignments, newAssignments,
           hasChanged, newCentroids, pending, stackInput, live, thrown, error, clusters>>
avars == <<batch, now, twoYears, apc, amountOut, frequencyOut, geographicOut,
           timingOut, result>>
fvars == <<targetReport, limit, fpc, similar>>
tvars == <<moduleError, text, other, tpc, spc, analysis, similarity>>
gvars == <<docs, threshold, gpc, groups>>
ivars == <<subject, ipc, verdict>>
vars == <<cvars, fvars, avars, tvars, gvars, ivars>>

-----------------------------------------------------------------------------
(* Helpers                                                                 *)

Abs(x) == IF x < 0 THEN -x ELSE x
Max2(a, b) == IF a > b THEN a ELSE b
Min2(a, b) == IF a < b THEN a ELSE b

RECURSIVE SumRange(_, _, _)
\* s[lo] + ... + s[hi], by halves
SumRange(s, lo, hi) ==
    IF lo > hi THEN 0
    ELSE IF lo = hi THEN s[lo]
    ELSE LET mid == (lo + hi) \div 2
         IN  SumRange(s, lo, mid) + SumRange(s, mid + 1, hi)

SumSeq(s) == SumRange(s, 1, Len(s))

\* the elements of a finite set of integers in increasing order
OrderedIdx(S) ==
    [p \in 1..Cardinality(S) |->
        CHOOSE i \in S : Cardinality({j \in S : j < i}) = p - 1]

Range(s) == {s[i] : i \in DOMAIN s}

\* the distinct values of s, in first-seen order (insertion order of a
\* JavaScript Map or Set)
Distinct(s) ==
    LET first == {i \in DOMAIN s : \A j \in 1..(i - 1) : s[j] # s[i]}
    IN  [p \in 1..Cardinality(first) |->
            s[CHOOSE i \in first : Cardinality({j \in first : j < i}) = p - 1]]

IndexOf(s, x) == IF x \in Range(s) THEN CHOOSE i \in DOMAIN s :
                                            s[i] = x /\ \A j \in 1..(i-1) : s[j] # x
                 ELSE 0

-----------------------------------------------------------------------------
(* BigNat: naturals as little-endian limb sequences, <<>> is zero          *)

Base == 1000

RECURSIVE BNat(_)
BNat(n) == IF n = 0 THEN <<>> ELSE <<n % Base>> \o BNat(n \div Base)

BLimb(a, i) == IF i \in DOMAIN a THEN a[i] ELSE 0

\* a without its leading zero limbs
BTrim(a) ==
    LET used == {i \in 1..Len(a) : a[i] # 0}
    IN  IF used = {} THEN <<>>
        ELSE SubSeq(a, 1, CHOOSE i \in used : \A j \in used : j <= i)

\* the limbs of the sum of s[i] * Base^(i-1), for 0 <= s[i] < Base^3.  Two
\* passes of local carries leave every limb at most Base + 1; after them a
\* carry of 1 enters limb i exactly when a limb below i overflows and every
\* limb between the two is Base - 1.
BNorm(s) ==
    LET n == Len(s)
        t == [i \in 1..(n + 2) |->
                 (BLimb(s, i) % Base) + ((BLimb(s, i - 1) \div Base) % Base)
                 + (BLimb(s, i - 2) \div (Base * Base))] \o <<>>
        u == [i \in 1..(n + 3) |->
                 (BLimb(t, i) % Base) + (BLimb(t, i - 1) \div Base)] \o <<>>
        CarryInto(i) ==
            \E j \in 1..(i - 1) :
                u[j] >= Base /\ \A h \in (j + 1)..(i - 1) : u[h] = Base - 1
    IN  BTrim([i \in 1..(n + 3) |->
                  (u[i] + IF CarryInto(i) THEN 1 ELSE 0) % Base])

BAdd(a, b) ==
    IF a = <<>> THEN b
    ELSE IF b = <<>> THEN a
    ELSE BNorm([i \in 1..Max2(Len(a), Len(b)) |-> BLimb(a, i) + BLimb(b, i)] \o <<>>)

\* the sum of the limb products that fall on limb pos of a * b
BConv(a, b, pos) ==
    SumRange([i \in 1..Len(a) |-> a[i] * BLimb(b, pos - i + 1)] \o <<>>, 1, Len(a))

BMul(a, b) ==
    IF a = <<>> \/ b = <<>> THEN <<>>
    ELSE BNorm([pos \in 1..(Len(a) + Len(b) - 1) |-> BConv(a, b, pos)] \o <<>>)

\* -1, 0 or 1 as a < b, a = b, a > b (both trimmed)
BCmp(a, b) ==
    IF Len(a) > Len(b) THEN 1
    ELSE IF Len(a) < Len(b) THEN -1
    ELSE LET differ == {i \in 1..Len(a) : a[i] # b[i]}
         IN  IF differ = {} THEN 0
             ELSE LET i == CHOOSE i \in differ : \A j \in differ : j <= i
                  IN  IF a[i] > b[i] THEN 1 ELSE -1

BLess(a, b) == BCmp(a, b) = -1
BLeq(a, b)  == BCmp(a, b) # 1
BSq(n)      == BMul(BNat(Abs(n)), BNat(Abs(n)))

RECURSIVE BSumRange(_, _, _)
BSumRange(s, lo, hi) ==
    IF lo > hi THEN <<>>
    ELSE IF lo = hi THEN s[lo]
    ELSE LET mid == (lo + hi) \div 2
         IN  BAdd(BSumRange(s, lo, mid), BSumRange(s, mid + 1, hi))

\* the sum of a sequence of BigNat values
BSum(s) == BSumRange(s, 1, Len(s))

\* a - b for a >= b: limb i borrows exactly when the limbs of a below i
\* make a smaller number than those of b
BSub(a, b) ==
    IF a = <<>> \/ b = <<>> THEN a ELSE
    LET Borrows(i) ==
            LET differ == {j \in 1..(i - 1) : a[j] # BLimb(b, j)}
            IN  /\ differ # {}
                /\ LET j == CHOOSE j \in differ : \A h \in differ : h <= j
                   IN  a[j] < BLimb(b, j)
    IN  BTrim([i \in 1..Len(a) |->
                  (a[i] - BLimb(b, i) - (IF Borrows(i) THEN 1 ELSE 0) + Base) % Base])

\* a * d for a limb-sized d
BMulSmall(a, d) ==
    IF a = <<>> \/ d = 0 THEN <<>>
    ELSE BNorm([i \in 1..Len(a) |-> a[i] * d] \o <<>>)

\* the quotient limb floor(r / b) for r < Base * b: it is bracketed by the
\* quotients of the three leading limbs of r and the two leading limbs of b
BQuotLimb(r, b) ==
    LET n  == Len(b)
        r3 == BLimb(r, n + 1) * Base * Base + BLimb(r, n) * Base + BLimb(r, n - 1)
        b2 == b[n] * Base + BLimb(b, n - 1)
        lo == r3 \div (b2 + 1)
        hi == Min2(Base - 1, (r3 + 1) \div b2)
    IN  IF lo = hi THEN lo
        ELSE CHOOSE d \in lo..hi :
                 /\ d > lo => BLeq(BMulSmall(b, d), r)
                 /\ d < hi => ~BLeq(BMulSmall(b, d + 1), r)

RECURSIVE BDivAt(_, _, _, _, _)
\* one step of the long division: the quotient limb d of the remainder r1
BDivStep(a, b, i, q, r1, d) ==
    BDivAt(a, b, i - 1, <<d>> \o q, BSub(r1, BMulSmall(b, d)))

\* the remainder r extended by limb i of a
BDivLimb(a, b, i, q, r1) ==
    IF BLess(r1, b) THEN BDivAt(a, b, i - 1, <<0>> \o q, r1)
    ELSE BDivStep(a, b, i, q, r1, BQuotLimb(r1, b))

\* long division of a by b from limb i down
BDivAt(a, b, i, q, r) ==
    IF i = 0 THEN [q |-> BTrim(q), r |-> r]
    ELSE BDivLimb(a, b, i, q, BTrim(<<a[i]>> \o r))

\* quotient and remainder of a by b, b > 0
BDivMod(a, b) ==
    IF Len(a) < Len(b) THEN [q |-> <<>>, r |-> a]
    ELSE BDivAt(a, b, Len(a) - Len(b) + 1, <<>>,
                SubSeq(a, Len(a) - Len(b) + 2, Len(a)))

\* 2 * a: a limb takes a carry of 1 when the limb below it is at least half
\* the base, and no carry runs further
BDouble(a) ==
    BTrim([i \in 1..(Len(a) + 1) |->
              ((2 * BLimb(a, i)) % Base)
              + (IF 2 * BLimb(a, i - 1) >= Base THEN 1 ELSE 0)] \o <<>>)

\* a div 2 and a mod 2
BHalf(a) ==
    [q |-> BTrim([i \in 1..Len(a) |->
                     (a[i] \div 2)
                     + (IF BLimb(a, i + 1) % 2 = 1 THEN Base \div 2 ELSE 0)] \o <<>>),
     r |-> IF BLimb(a, 1) % 2 = 1 THEN <<1>> ELSE <<>>]

RECURSIVE BDoubles(_, _)
\* powers followed by the next n powers of two
BDoubles(powers, n) ==
    IF n = 0 \/ powers = <<>> THEN powers
    ELSE BDoubles(Append(powers, BDouble(powers[Len(powers)])), n - 1)

RECURSIVE BDoubleRuns(_, _)
\* powers followed by n runs of 32 further powers of two
BDoubleRuns(powers, n) ==
    IF n = 0 \/ powers = <<>> THEN powers
    ELSE BDoubleRuns(BDoubles(powers, 32), n - 1)

\* the powers 2^0 .. 2^256, computed once
BPowers == BDoubleRuns(<< <<1>> >>, 8)

\* 2^j for j <= 256
BPow2(j) == BPowers[j + 1]

RECURSIVE BBitsIn(_, _, _)
\* the number of bits of a > 0, between lo and hi
BBitsIn(a, lo, hi) ==
    IF lo = hi THEN lo
    ELSE LET mid == (lo + hi) \div 2
         IN  IF BLess(a, BPow2(mid)) THEN BBitsIn(a, lo, mid)
             ELSE BBitsIn(a, mid + 1, hi)

\* the number of bits of a > 0: 2^(bits-1) <= a < 2^bits
BBits(a) == BBitsIn(a, 10 * (Len(a) - 1) - (Len(a) - 1) \div 25, 10 * Len(a))

RECURSIVE BRootFrom(_, _)
\* Newton's iteration for the integer square root, from x >= sqrt(a): y is
\* the next iterate
BRootNext(a, x, y) == IF BLess(y, x) THEN BRootFrom(a, y) ELSE x

BRootFrom(a, x) ==
    BRootNext(a, x, BHalf(BAdd(x, BDivMod(a, x).q)).q)

\* a first x >= sqrt(a) for a > 0: the root, rounded up, of the two or three
\* leading limbs of a, followed by half as many zero limbs as a has left
BRootGuess(a) ==
    LET n    == Len(a)
        lead == IF n % 2 = 0 THEN 2 ELSE Min2(n, 3)
        top  == IF lead = 1 THEN a[n]
                ELSE IF lead = 2 THEN a[n] * Base + a[n - 1]
                ELSE (a[n] * Base + a[n - 1]) * Base + a[n - 2]
        d    == CHOOSE d \in 1..31623 : (d - 1) * (d - 1) <= top /\ top < d * d
    IN  [i \in 1..((n - lead) \div 2) |-> 0] \o BNat(d)

\* floor(sqrt(a))
BRoot(a) == IF a = <<>> THEN <<>> ELSE BRootFrom(a, BRootGuess(a))

-----------------------------------------------------------------------------
(* IEEE 754 doubles.  A double is sign * m * 2^e with m a BigNat: zero has  *)
(* m = 0, a normal number 2^52 <= m < 2^53 and EMin <= e <= EMax, and a     *)
(* subnormal number 0 < m < 2^52 and e = EMin.  Infinity is written as the  *)
(* first power of two above the range, m = 2^52 and e = EMax + 1, so that   *)
(* it compares as the largest value.  NaN has sign 0.  Zero is kept with    *)
(* sign 1: the program never divides by a negative zero and never prints    *)
(* one.                                                                     *)

EMin == -1074
EMax == 971

DZero == [sign |-> 1, m |-> <<>>, e |-> 0]
DNaN == [sign |-> 0, m |-> <<>>, e |-> 0]
IsNaN(x) == x.sign = 0

\* 2^52 and 2^53
TwoTo52 == <<496, 370, 627, 599, 503, 4>>
TwoTo53 == <<992, 740, 254, 199, 7, 9>>

\* sign * Infinity
DInf(sign) == [sign |-> sign, m |-> TwoTo52, e |-> EMax + 1]
IsInf(x) == x.e > EMax

\* Number.isFinite(x)
IsFinite(x) == ~IsNaN(x) /\ ~IsInf(x)

\* the double sign * m * 2^e for m < 2^53: a value above the range is
\* Infinity
DFinal(sign, m, e) ==
    IF m = <<>> THEN DZero
    ELSE IF e > EMax THEN DInf(sign)
    ELSE [sign |-> sign, m |-> m, e |-> e]

\* round the quotient q of a division with remainder 2 * r compared to the
\* divisor as cmp (-1, 0, 1): to nearest, ties to even
DRoundUp(q, cmp) == cmp = 1 \/ (cmp = 0 /\ BLimb(q, 1) % 2 = 1)

DCarry(sign, m, e) ==
    IF m = TwoTo53 THEN DFinal(sign, TwoTo52, e + 1) ELSE DFinal(sign, m, e)

DPack(sign, q, e, up) == DCarry(sign, IF up THEN BAdd(q, <<1>>) ELSE q, e)

\* the double sign * h.q * 2^e, rounded by the halved bit h.r and the
\* remainder r below it
DRoundHalf(sign, h, r, e) ==
    DPack(sign, h.q, e,
          DRoundUp(h.q, IF h.r = <<>> THEN -1 ELSE IF r = <<>> THEN 0 ELSE 1))

\* the double nearest to sign * (d.q + d.r / den) * 2^e, for a quotient d.q
\* below 2^54
DRoundQuot(sign, d, den, e) ==
    IF BLess(d.q, TwoTo53)
    THEN DPack(sign, d.q, e, DRoundUp(d.q, BCmp(BDouble(d.r), den)))
    ELSE DRoundHalf(sign, BHalf(d.q), d.r, e + 1)

\* the double nearest to sign * (num / den) * 2^e, for num / den < 2^54
DRoundDiv(sign, num, den, e) == DRoundQuot(sign, BDivMod(num, den), den, e)

\* p / q is scaled by 2^-e0 into that range and rounded to a multiple of
\* 2^(e0 + e)
DRoundAt(sign, p, q, e, e0) ==
    DRoundDiv(sign, IF e0 < 0 THEN BMul(p, BPow2(-e0)) ELSE p,
              IF e0 > 0 THEN BMul(q, BPow2(e0)) ELSE q, e0 + e)

\* the double sign * p * 2^e for p < 2^53, which needs no rounding
DExact(sign, p, up, e) == DFinal(sign, BMul(p, BPow2(up)), e - up)

\* the double nearest to sign * (p / q) * 2^e for 2^(width - 1) < p / q and
\* p / q < 2^(width + 1).  The value is rounded at its 53rd bit, or at
\* 2^EMin where that is coarser (a subnormal result); below 2^(EMin - 1) it
\* underflows to zero.
DRoundFrom(sign, p, q, e, width) ==
    IF width + 1 + e < EMin THEN DZero
    ELSE DRoundAt(sign, p, q, e, Max2(width - 53, EMin - e))

\* the same for p > 0 of the given number of bits
DRoundBits(sign, p, q, e, bits) ==
    IF q = <<1>> /\ bits <= 53 /\ e + bits - 53 >= EMin
    THEN DExact(sign, p, 53 - bits, e)
    ELSE DRoundFrom(sign, p, q, e, bits - BBits(q))

\* the double nearest to sign * (p / q) * 2^e, for BigNat p >= 0 and q > 0
DRound(sign, p, q, e) ==
    IF p = <<>> THEN DZero ELSE DRoundBits(sign, p, q, e, BBits(p))

\* the double sign * p for p < 2^53
DOfNat(sign, p) == IF p = <<>> THEN DZero ELSE DExact(sign, p, 53 - BBits(p), 0)

\* the double of an integer
DInt(n) == DOfNat(IF n < 0 THEN -1 ELSE 1, BNat(Abs(n)))

\* sx * a * 2^e + sy * b * 2^e
DSumAligned(sx, a, sy, b, e) ==
    DRound(IF sx = sy \/ ~BLess(a, b) THEN sx ELSE sy,
           IF sx = sy THEN BAdd(a, b)
           ELSE IF BLess(a, b) THEN BSub(b, a) ELSE BSub(a, b),
           <<1>>, e)

\* x - y for finite non-zero x and y whose exponents are at most 60 apart
DSubAt(x, y, e) ==
    DSumAligned(x.sign, BMul(x.m, BPow2(x.e - e)),
                -y.sign, BMul(y.m, BPow2(y.e - e)), e)

\* x - y; Infinity - Infinity is NaN
DSub(x, y) ==
    IF IsNaN(x) \/ IsNaN(y) THEN DNaN
    ELSE IF IsInf(x) THEN (IF IsInf(y) /\ x.sign = y.sign THEN DNaN ELSE x)
    ELSE IF y.m = <<>> THEN x
    ELSE IF IsInf(y) \/ x.m = <<>> THEN [y EXCEPT !.sign = -y.sign]
    \* an operand 2^60 times smaller than the other does not reach the
    \* rounding of the result
    ELSE IF x.e - y.e > 60 THEN x
    ELSE IF y.e - x.e > 60 THEN [y EXCEPT !.sign = -y.sign]
    ELSE DSubAt(x, y, Min2(x.e, y.e))

\* x + y
DAdd(x, y) == IF IsNaN(y) THEN DNaN ELSE DSub(x, [y EXCEPT !.sign = -y.sign])

\* x * y; Infinity * 0 is NaN
DMul(x, y) ==
    IF IsNaN(x) \/ IsNaN(y) THEN DNaN
    ELSE IF IsInf(x) \/ IsInf(y)
    THEN (IF x.m = <<>> \/ y.m = <<>> THEN DNaN ELSE DInf(x.sign * y.sign))
    ELSE DRound(x.sign * y.sign, BMul(x.m, y.m), <<1>>, x.e + y.e)

\* x / y; 0 / 0 and Infinity / Infinity are NaN, x / 0 is Infinity with the
\* sign of x for every other x
DDiv(x, y) ==
    IF IsNaN(x) \/ IsNaN(y) THEN DNaN
    ELSE IF IsInf(x) THEN (IF IsInf(y) THEN DNaN ELSE DInf(x.sign * y.sign))
    ELSE IF IsInf(y) THEN DZero
    ELSE IF y.m = <<>> THEN (IF x.m = <<>> THEN DNaN ELSE DInf(x.sign))
    ELSE DRound(x.sign * y.sign, x.m, y.m, x.e - y.e)

\* the double of the 54-bit root s (as s div 2 and s mod 2) times 2^e
DSqrtPack(h, e) == DPack(1, h.q, e, h.r # <<>>)

\* sqrt(m2 * 2^e2) for e2 even and 2^52 <= m2 < 2^54
DSqrtOf(m2, e2) ==
    DSqrtPack(BHalf(BRoot(BMul(m2, BPow2(54)))), (e2 - 54) \div 2 + 1)

\* sqrt(m * 2^e) for 2^52 <= m < 2^53
DSqrtAt(m, e) ==
    IF (e % 2) # 0 THEN DSqrtOf(BDouble(m), e - 1) ELSE DSqrtOf(m, e)

\* the same for 0 < m < 2^53 that is up bits short of 53 (a subnormal x)
DSqrtShifted(m, e, up) == DSqrtAt(BMul(m, BPow2(up)), e - up)

\* Math.sqrt(x); NaN for x < 0.  With x = m2 * 2^e2, e2 even and
\* 2^52 <= m2 < 2^54, s = floor(sqrt(m2 * 2^54)) has 54 bits.  A square root
\* is never half-way between two doubles, so it rounds up exactly when the
\* last bit of s is set.
DSqrt(x) ==
    IF IsNaN(x) \/ (x.sign = -1 /\ x.m # <<>>) THEN DNaN
    ELSE IF x.m = <<>> \/ IsInf(x) THEN x
    ELSE DSqrtShifted(x.m, x.e, 53 - BBits(x.m))

\* Math.abs(x)
DAbs(x) == IF IsNaN(x) THEN DNaN ELSE [x EXCEPT !.sign = 1]

\* x < y; false when either is NaN
DLess(x, y) ==
    IF IsNaN(x) \/ IsNaN(y) THEN FALSE
    ELSE IF x.m = <<>> THEN y.m # <<>> /\ y.sign = 1
    ELSE IF y.m = <<>> THEN x.sign = -1
    ELSE IF x.sign # y.sign THEN x.sign = -1
    ELSE IF x.sign = 1 THEN x.e < y.e \/ (x.e = y.e /\ BLess(x.m, y.m))
    ELSE y.e < x.e \/ (x.e = y.e /\ BLess(y.m, x.m))

RECURSIVE DSumFrom(_, _, _, _)
\* ((acc + xs[lo]) + ...) + xs[hi], added from left to right; NaN stays NaN
DSumFrom(xs, lo, hi, acc) ==
    IF IsNaN(acc) \/ lo > hi THEN acc
    ELSE IF lo = hi THEN DAdd(acc, xs[lo])
    ELSE LET mid == (lo + hi) \div 2
         IN  DSumFrom(xs, mid + 1, hi, DSumFrom(xs, lo, mid, acc))

-----------------------------------------------------------------------------
(* Bounds and inputs of the clustering specification                       *)

MaxReports == 3     \* longest batch handed to clusterReports
MaxK == 2           \* largest k requested

maxIterations == 100

\* The order of the agencies array of hashAgency
Agencies == <<"police", "land_services", "civil_registration", "judiciary",
              "motor_vehicle", "business_licensing", "education", "health",
              "tax", "huduma_center", "other">>

\* Reports the batches are drawn from.  incidentDate is in units of 1e11 ms
\* (17 is 2023-11-14T22:13:20Z), estimatedAmount 0 stands for an absent
\* amount (report.estimatedAmount || 0).
ClusterPool ==
    { [county |-> "Nairobi", agency |-> "police", categories |-> <<"bribery">>,
       incidentDate |-> 17, estimatedAmount |-> 0],
      [county |-> "Mombasa", agency |-> "police",
       categories |-> <<"bribery", "extortion">>,
       incidentDate |-> 17, estimatedAmount |-> 2980],
      [county |-> "Nairobi", agency |-> "tax", categories |-> <<"bribery">>,
       incidentDate |-> 16, estimatedAmount |-> 22025] }

WithId(shape, i) ==
    [id |-> i, county |-> shape.county, agency |-> shape.agency,
     categories |-> shape.categories, incidentDate |-> shape.incidentDate,
     estimatedAmount |-> shape.estimatedAmount]

ClusterBatches ==
    UNION { { [i \in 1..n |-> WithId(shapes[i], i)] :
                shapes \in [1..n -> ClusterPool] } : n \in 1..MaxReports }

\* The counties of the pool, and the features a report of a batch can have
\* before they are normalized: county index, agency hash, amount, incident
\* date and number of categories.
PoolCounties == {shape.county : shape \in ClusterPool}

-----------------------------------------------------------------------------
(* float32.  tfjs keeps the values of a tensor in a Float32Array: a value  *)
(* stored in a tensor is rounded to 24 significant bits, ties to even.  A  *)
(* float32 value is written as the double it is equal to.  The kernels of  *)
(* the CPU backend compute each element in doubles from the float32 values *)
(* of their inputs and store the result, which rounds it; the model        *)
(* follows that arithmetic.                                                 *)

\* 2^24, 2^28 and 2^29
TwoTo24 == <<216, 777, 16>>
TwoTo28 == <<456, 435, 268>>
TwoTo29 == <<912, 870, 536>>

\* the 24-bit mantissa q of sign * q * 2^(e + 29) as a double
FPack(sign, q, e) ==
    IF q = TwoTo24 THEN [sign |-> sign, m |-> TwoTo52, e |-> e + 1]
    ELSE [sign |-> sign, m |-> BMul(q, TwoTo29), e |-> e]

\* d.q and d.r are the upper 24 and the lower 29 bits of a mantissa
FRoundAt(sign, d, e) ==
    FPack(sign, IF DRoundUp(d.q, BCmp(d.r, TwoTo28)) THEN BAdd(d.q, <<1>>) ELSE d.q, e)

\* Math.fround(x): the float32 nearest to the double x (the exponent range
\* of float32 is not modelled: the features and their squared distances lie
\* well inside it)
Fround(x) ==
    IF IsNaN(x) \/ x.m = <<>> \/ IsInf(x) THEN x
    ELSE FRoundAt(x.sign, BDivMod(x.m, TwoTo29), x.e)

\* tf.randomUniform([numFeatures]): two representative rows, every feature 0
\* or one half
RandomRows ==
    { [f \in 1..5 |-> DZero], [f \in 1..5 |-> [sign |-> 1, m |-> TwoTo52, e |-> -53]] }

-----------------------------------------------------------------------------
(* Vectorizer                                                              *)

hashAgency(agency) == IndexOf(Agencies, agency)

\* The county map as the sequence of its keys in insertion order; the value
\* of a key is its position minus one.
createCountyMap(rs) == Distinct([i \in 1..Len(rs) |-> rs[i].county])

\* Math.log(x) for the arguments amount + 1 of ClusterPool, as doubles:
\* Math.log(2981) = 8.000014093678072, Math.log(22026) = 9.999978852724889
Log(x) ==
    CASE x = 1     -> DZero
      [] x = 2981  -> [sign |-> 1, m |-> <<910, 405, 561, 607, 503, 4>>, e |-> -49]
      [] x = 22026 -> [sign |-> 1, m |-> <<581, 355, 629, 487, 629, 5>>, e |-> -49]

\* the timestamp of an incident date, which counts units of 1e11 ms
Timestamp(incidentDate) ==
    DOfNat(1, BMul(BNat(incidentDate), BMul(BNat(100000), BNat(1000000))))

\* countyIndex, agencyHash, amount, timestamp (in 1e11 ms) and categoryCount
Features(report, countyMap) ==
    << IF report.county \in Range(countyMap)
       THEN IndexOf(countyMap, report.county) - 1 ELSE 0,
       hashAgency(report.agency),
       report.estimatedAmount,
       report.incidentDate,
       Len(report.categories) >>

\* what is divided in each entry of the vector: countyIndex / 47,
\* agencyHash / 11, Math.log(amount + 1) / 20, timestamp / 1e12,
\* categoryCount / 7
Dividend(f, i) ==
    IF i = 3 THEN Log(f[3] + 1)
    ELSE IF i = 4 THEN Timestamp(f[4])
    ELSE DInt(f[i])

Divisor(i) ==
    IF i = 4 THEN DOfNat(1, BMul(BNat(1000000), BNat(1000000)))
    ELSE DInt(<<47, 11, 20, 0, 7>>[i])

\* the normalized values, each a double: the amounts of ClusterPool give
\* 0, 0.4000007046839036 and 0.49999894263624445
Normalized(f) == [i \in 1..5 |-> DDiv(Dividend(f, i), Divisor(i))] \o <<>>

reportToVector(report, countyMap) == Normalized(Features(report, countyMap))

\* const vectors = reports.map((r) => reportToVector(r, countyMap))
Vectors(rs) == [i \in 1..Len(rs) |-> reportToVector(rs[i], createCountyMap(rs))]

\* tf.tensor2d stores a row of doubles as float32 values
StoredRow(v) == [i \in 1..5 |-> Fround(v[i])] \o <<>>

\* the values of tf.tensor2d(vectors)
tensor2d(vectors) == [i \in 1..Len(vectors) |-> StoredRow(vectors[i])]

\* rows of the data tensor of a batch
Data(rs) == tensor2d(Vectors(rs))

-----------------------------------------------------------------------------
(* K-means.  A row of the data or the centroid tensor is a tuple of five   *)
(* float32 values.                                                          *)

\* one element of tf.square(diff), where diff is an element of
\* tf.sub(expandedData, expandedCentroids)
Square(diff) == Fround(DMul(diff, diff))

SquaredDiff(x, y) == Square(Fround(DSub(x, y)))

\* one element of tf.sum(..., 2): the five squares are added from left to
\* right, and the sum is stored
SquaredDistance(p, c) ==
    Fround(DSumFrom([f \in 1..5 |-> SquaredDiff(p[f], c[f])] \o <<>>, 1, 5, DZero))

\* the feature tuples of the reports of the pool and the rows tf.tensor2d
\* stores for them
KnownFeatures ==
    { <<c, hashAgency(shape.agency), shape.estimatedAmount, shape.incidentDate,
        Len(shape.categories)>> :
        c \in 0..(Cardinality(PoolCounties) - 1), shape \in ClusterPool }

KnownRows == { StoredRow(Normalized(f)) : f \in KnownFeatures }

\* what a table of computed values holds for a key, else the value computed
\* for it
Known(table, key, computed) ==
    IF \E known \in table : known.of = key
    THEN (CHOOSE known \in table : known.of = key).is
    ELSE computed

\* the distances between the rows of the pool, computed once
KnownDistances ==
    { [of |-> <<p, c>>, is |-> SquaredDistance(p, c)] : p, c \in KnownRows }

\* distances[i][j] for data row p and centroid row c
Dist2(p, c) == Known(KnownDistances, <<p, c>>, SquaredDistance(p, c))

\* the row of the distances tensor for data row p
Distances(p, cents) == [j \in DOMAIN cents |-> Dist2(p, cents[j])]

\* tf.argMin over the centroid axis: the first index of a minimal distance
argMin(distances) ==
    CHOOSE j \in DOMAIN distances :
        \A j2 \in DOMAIN distances :
            IF j2 < j THEN DLess(distances[j], distances[j2])
            ELSE ~DLess(distances[j2], distances[j])

assignToCentroids(rows, cents) ==
    [i \in 1..Len(rows) |-> argMin(Distances(rows[i], cents))]

\* injective index sequences: createShuffledIndices(numPoints).slice(0, k)
ShuffledPrefixes(numPoints, kk) ==
    { s \in [1..kk -> 1..numPoints] : \A a, b \in 1..kk : a # b => s[a] # s[b] }

RECURSIVE MemberIdx(_, _, _)
\* indices idx with assignmentValues[idx] = i, in order
MemberIdx(assignmentValues, i, from) ==
    IF from > Len(assignmentValues) THEN <<>>
    ELSE (IF assignmentValues[from] = i THEN <<from>> ELSE <<>>)
         \o MemberIdx(assignmentValues, i, from + 1)

\* tf.booleanMaskAsync(data, mask): the rows of cluster i
ClusterPoints(rows, assignmentValues, i) ==
    LET idx == MemberIdx(assignmentValues, i, 1)
    IN  [j \in 1..Len(idx) |-> rows[idx[j]]]

\* one element of tf.mean(points, 0): every value is divided by the number
\* of points, the quotients are added from the first point on, and the sum
\* is stored
MeanOfValues(values) ==
    Fround(DSumFrom([j \in 1..Len(values) |->
                        Fround(DDiv(values[j], DInt(Len(values))))] \o <<>>,
                    1, Len(values), DZero))

\* the columns a feature of the pool can make in a batch, with their means,
\* computed once
KnownColumns ==
    UNION { UNION { [1..n -> {row[f] : row \in KnownRows}] :
                      n \in 1..MaxReports } : f \in 1..5 }

KnownMeans == { [of |-> v, is |-> MeanOfValues(v)] : v \in KnownColumns }

MeanOf(values) == Known(KnownMeans, values, MeanOfValues(values))

\* tf.mean(points, 0) for at least one point
ClusterMean(points) ==
    [f \in 1..5 |-> MeanOf([j \in 1..Len(points) |-> points[j][f]])]

\* The callbacks of updateCentroids that have run when tf.stack executes.
\* They are promise reactions attached with .then inside the synchronous
\* body of tf.tidy, so none of them has run.
RunBeforeStack(kk) == <<>>

-----------------------------------------------------------------------------
(* Cluster Characterizer and materialization                               *)

RECURSIVE CountOf(_, _)
CountOf(s, x) ==
    IF s = <<>> THEN 0
    ELSE (IF Head(s) = x THEN 1 ELSE 0) + CountOf(Tail(s), x)

\* Array.from(map.entries()).reduce((a, b) => a[1] > b[1] ? a : b)
RECURSIVE ReduceEntries(_, _)
ReduceEntries(acc, rest) ==
    IF rest = <<>> THEN acc
    ELSE ReduceEntries(IF acc[2] > Head(rest)[2] THEN acc ELSE Head(rest),
                       Tail(rest))

\* dominantAgency and reportCount of the characteristics; averageAmount,
\* commonCounties and timePattern are left out
analyzeCluster(rs) ==
    LET agencies     == [i \in 1..Len(rs) |-> rs[i].agency]
        keys         == Distinct(agencies)
        agencyCounts == [i \in 1..Len(keys) |-> <<keys[i], CountOf(agencies, keys[i])>>]
    IN  [dominantAgency |-> ReduceEntries(Head(agencyCounts), Tail(agencyCounts))[1],
         reportCount    |-> Len(rs)]

\* mutant: the filter compares with <= instead of ===
RECURSIVE MemberIdxUpTo(_, _, _)
MemberIdxUpTo(assignmentValues, i, from) ==
    IF from > Len(assignmentValues) THEN <<>>
    ELSE (IF assignmentValues[from] <= i THEN <<from>> ELSE <<>>)
         \o MemberIdxUpTo(assignmentValues, i, from + 1)

ClusterMembersUpTo(rs, assignmentValues, i) ==
    LET idx == MemberIdxUpTo(assignmentValues, i, 1)
    IN  [j \in 1..Len(idx) |-> rs[idx[j]]]

\* reports.filter((_, idx) => assignmentValues[idx] === i)
ClusterMembers(rs, assignmentValues, i) ==
    LET idx == MemberIdx(assignmentValues, i, 1)
    IN  [j \in 1..Len(idx) |-> rs[idx[j]]]

\* mutant: clusters of a single report are dropped as well
KeepClusterOverOne(clusterReports) == Len(clusterReports) > 1

\* if (clusterReports.length > 0)
KeepCluster(clusterReports) == Len(clusterReports) > 0

\* the loop for (let i = 0; i < k; i++) of clusterReports, from index i on
RECURSIVE BuildClusters(_, _, _, _, _)
BuildClusters(rs, assignmentValues, centroidValues, kk, i) ==
    IF i >= kk THEN <<>>
    ELSE LET clusterReports == ClusterMembers(rs, assignmentValues, i)
         IN  (IF KeepCluster(clusterReports)
              THEN << [id |-> i,
                       centroid |-> centroidValues[i],
                       reports |-> clusterReports,
                       characteristics |-> analyzeCluster(clusterReports)] >>
              ELSE <<>>)
             \o BuildClusters(rs, assignmentValues, centroidValues, kk, i + 1)

-----------------------------------------------------------------------------
(* The call clusterReports(reports, k)                                     *)

Tensor(name, n) == <<name, n>>

\* no isReportAnomalous call is in progress
IsAnomalousIdle ==
    /\ subject = <<>>
    /\ ipc = "off"
    /\ verdict = <<>>

AnomalyIdle ==
    /\ IsAnomalousIdle
    /\ batch = <<>>
    /\ now = 0
    /\ twoYears = 0
    /\ apc = "off"
    /\ amountOut = <<>>
    /\ frequencyOut = <<>>
    /\ geographicOut = <<>>
    /\ timingOut = <<>>
    /\ result = [anomalies |-> <<>>, normalReports |-> <<>>]

\* a rational p/q in lowest terms, q > 0
RECURSIVE GCD(_, _)
GCD(a, b) == IF b = 0 THEN a ELSE GCD(b, a % b)

Ratio(p, q) ==
    LET g == GCD(Abs(p), q)
    IN  [num |-> p \div g, den |-> q \div g]

NoAnalysis ==
    [sentiment |-> [score |-> Ratio(0, 1), label |-> "", confidence |-> Ratio(0, 1)],
     keywords |-> <<>>,
     readabilityScore |-> DZero,
     textStatistics |-> [wordCount |-> 0, sentenceCount |-> 0,
                         characterCount |-> 0,
                         averageWordLength |-> Ratio(0, 1),
                         averageSentenceLength |-> Ratio(0, 1)],
     suggestedCategories |-> <<>>]

\* no findSimilarReports call is in progress
SimilarIdle ==
    /\ targetReport = WithId(CHOOSE shape \in ClusterPool : TRUE, 0)
    /\ limit = 0
    /\ fpc = "off"
    /\ similar = <<>>

\* no findSimilarReportsByText call is in progress
GroupsIdle ==
    /\ docs = <<>>
    /\ threshold = Ratio(0, 1)
    /\ gpc = "off"
    /\ groups = <<>>

TextIdle ==
    /\ moduleError = "none"
    /\ text = ""
    /\ other = ""
    /\ tpc = "off"
    /\ spc = "off"
    /\ analysis = NoAnalysis
    /\ similarity = Ratio(0, 1)
    /\ GroupsIdle

Init ==
    /\ reports \in ClusterBatches
    /\ data = <<>>
    /\ k \in 1..MaxK
    /\ pc = "call"
    /\ iter = 0
    /\ centroids = <<>>
    /\ assignments = <<>>
    /\ newAssignments = <<>>
    /\ hasChanged = FALSE
    /\ newCentroids = <<>>
    /\ pending = {}
    /\ stackInput = <<"none">>
    /\ live = {}
    /\ thrown = "none"
    /\ error = "none"
    /\ clusters = <<>>
    /\ SimilarIdle
    /\ AnomalyIdle
    /\ TextIdle

\* catch (error) { throw new Error('Failed to cluster reports') }
CaughtAs(e) == "Failed to cluster reports"

\* Promise reactions run when the call stack is empty: while the call waits
\* at an await, and after it has settled.
AtAwait == pc \notin {"call", "assign", "update"}

\* if (reports.length < k) throw ...: raised inside the try block and caught
\* in the same turn
RejectInsufficient ==
    /\ pc = "call"
    /\ Len(reports) < k
    /\ thrown' = "Not enough reports"
    /\ error' = CaughtAs("Not enough reports")
    /\ pc' = "failed"
    /\ UNCHANGED <<reports, data, k, iter, centroids, assignments, newAssignments,
                   hasChanged, newCentroids, pending, stackInput, live, clusters>>
    /\ UNCHANGED <<fvars, avars, tvars, gvars, ivars>>

\* tf.tensor2d(vectors) and the initialisation of kMeans; tf.tensor2d
\* accepts a non-empty array of rows
StartKMeans ==
    /\ pc = "call"
    /\ Len(reports) >= k
    /\ reports # <<>>
    /\ data' = Data(reports)
    /\ \E centroidIndices \in ShuffledPrefixes(Len(reports), k) :
          centroids' = [j \in 0..(k - 1) |-> data'[centroidIndices[j + 1]]]
    /\ assignments' = [i \in 1..Len(reports) |-> 0]
    /\ live' = {Tensor("data", 0), Tensor("centroids", 0), Tensor("assignments", 0)}
    /\ iter' = 0
    /\ pc' = "assign"
    /\ UNCHANGED <<reports, k, newAssignments, hasChanged, newCentroids, pending,
                   stackInput, thrown, error, clusters>>
    /\ UNCHANGED <<fvars, avars, tvars, gvars, ivars>>

\* centroidIndices is a Uint32Array (createShuffledIndices(...).slice).  The
\* argument conversion of tf.gather belongs to the tfjs library, which is
\* not part of the repository: a library that takes only Float32Array,
\* Int32Array and Uint8Array as typed arrays rejects the indices.  The
\* exception leaves kMeans as a rejected promise while data stays allocated.
GatherRejects ==
    /\ pc = "call"
    /\ Len(reports) >= k
    /\ reports # <<>>
    /\ data' = Data(reports)
    /\ thrown' = "Argument 'indices' passed to 'gather' must be a Tensor or TensorLike"
    /\ live' = {Tensor("data", 0)}
    /\ pc' = "rejected"
    /\ UNCHANGED <<reports, k, iter, centroids, assignments, newAssignments,
                   hasChanged, newCentroids, pending, stackInput, error, clusters>>
    /\ UNCHANGED <<fvars, avars, tvars, gvars, ivars>>

\* const newAssignments = assignToCentroids(data, centroids), then kMeans
\* waits for assignments.array()
AssignStep ==
    /\ pc = "assign"
    /\ newAssignments' = assignToCentroids(data, centroids)
    /\ live' = live \cup {Tensor("assignments", iter + 1)}
    /\ pc' = "assignmentValues"
    /\ UNCHANGED <<reports, data, k, iter, centroids, assignments, hasChanged,
                   newCentroids, pending, stackInput, thrown, error, clusters>>
    /\ UNCHANGED <<fvars, avars, tvars, gvars, ivars>>

\* kMeans resumes with assignmentValues and waits for newAssignments.array()
ReadAssignments ==
    /\ pc = "assignmentValues"
    /\ pc' = "newAssignmentValues"
    /\ UNCHANGED <<reports, data, k, iter, centroids, assignments, newAssignments,
                   hasChanged, newCentroids, pending, stackInput, live, thrown,
                   error, clusters>>
    /\ UNCHANGED <<fvars, avars, tvars, gvars, ivars>>

\* kMeans resumes with newAssignmentValues: the convergence test, the old
\* assignments are disposed and replaced; an unchanged assignment ends the
\* loop and kMeans returns
CompareAssignments ==
    /\ pc = "newAssignmentValues"
    /\ LET changed == \E idx \in 1..Len(assignments) :
                          assignments[idx] # newAssignments[idx]
       IN  /\ hasChanged' = changed
           /\ assignments' = newAssignments
           /\ live' = live \ {Tensor("assignments", iter)}
           /\ pc' = IF changed THEN "update" ELSE "converged"
    /\ UNCHANGED <<reports, data, k, iter, centroids, newAssignments, newCentroids,
                   pending, stackInput, thrown, error, clusters>>
    /\ UNCHANGED <<fvars, avars, tvars, gvars, ivars>>

\* the entry the callback of cluster i pushes when its points are empty or not
CallbackEntries(i) ==
    LET points == ClusterPoints(data, assignments, i)
    IN  IF Len(points) > 0 THEN {[cluster |-> i, row |-> ClusterMean(points)]}
        ELSE {[cluster |-> i, row |-> r] : r \in RandomRows}

RECURSIVE EntriesOf(_)
\* entries pushed by the callbacks that ran, in the order they ran
EntriesOf(order) ==
    IF order = <<>> THEN <<>>
    ELSE <<CHOOSE e \in CallbackEntries(Head(order)) : TRUE>> \o EntriesOf(Tail(order))

\* updateCentroids(data, assignments, k, numFeatures): the loop schedules one
\* callback per cluster, then tf.stack assembles what the list holds.
\* tf.stack fails on an empty list; the exception leaves kMeans as a
\* rejected promise.  The masks are released by tf.tidy on both paths.
\* After a successful update the next iteration follows in the same turn.
UpdateCentroidsStep ==
    /\ pc = "update"
    /\ LET ran     == RunBeforeStack(k)
           stacked == EntriesOf(ran)
       IN  /\ stackInput' = stacked
           /\ newCentroids' = stacked
           /\ pending' = (0..(k - 1)) \ Range(ran)
           /\ IF stacked = <<>>
              THEN /\ thrown' = "Pass at least one tensor to tf.stack"
                   /\ pc' = "rejected"
                   /\ UNCHANGED <<centroids, iter, live>>
              ELSE /\ centroids' = [j \in 0..(Len(stacked) - 1) |-> stacked[j + 1].row]
                   /\ live' = (live \ {Tensor("centroids", iter)})
                                  \cup {Tensor("centroids", iter + 1)}
                   /\ iter' = iter + 1
                   /\ pc' = IF iter + 1 < maxIterations THEN "assign" ELSE "converged"
                   /\ UNCHANGED thrown
    /\ UNCHANGED <<reports, data, k, assignments, newAssignments, hasChanged, error,
                   clusters>>
    /\ UNCHANGED <<fvars, avars, tvars, gvars, ivars>>

\* clusterReports resumes from await kMeans(data, k) with the rejection: the
\* catch block replaces the error
CatchRejection ==
    /\ pc = "rejected"
    /\ error' = CaughtAs(thrown)
    /\ pc' = "failed"
    /\ UNCHANGED <<reports, data, k, iter, centroids, assignments, newAssignments,
                   hasChanged, newCentroids, pending, stackInput, live, thrown,
                   clusters>>
    /\ UNCHANGED <<fvars, avars, tvars, gvars, ivars>>

\* A callback of updateCentroids runs once booleanMaskAsync resolves: it
\* pushes the mean (or a random row) of its cluster and keeps that tensor.
CallbackRuns ==
    /\ AtAwait
    /\ \E i \in pending :
          /\ \E e \in CallbackEntries(i) : newCentroids' = Append(newCentroids, e)
          /\ live' = live \cup {Tensor("newCentroid", i)}
          /\ pending' = pending \ {i}
    /\ UNCHANGED <<reports, data, k, pc, iter, centroids, assignments, newAssignments,
                   hasChanged, stackInput, thrown, error, clusters>>
    /\ UNCHANGED <<fvars, avars, tvars, gvars, ivars>>

\* booleanMaskAsync works on tensors that tf.tidy has already released; when
\* it rejects, the callback never runs.
CallbackDropped ==
    /\ AtAwait
    /\ \E i \in pending : pending' = pending \ {i}
    /\ UNCHANGED <<reports, data, k, pc, iter, centroids, assignments, newAssignments,
                   hasChanged, newCentroids, stackInput, live, thrown, error,
                   clusters>>
    /\ UNCHANGED <<fvars, avars, tvars, gvars, ivars>>

\* clusterReports resumes from await kMeans(data, k) with the centroids and
\* assignments and waits for centroids.array()
ReadCentroids ==
    /\ pc = "converged"
    /\ pc' = "centroidValues"
    /\ UNCHANGED <<reports, data, k, iter, centroids, assignments, newAssignments,
                   hasChanged, newCentroids, pending, stackInput, live, thrown,
                   error, clusters>>
    /\ UNCHANGED <<fvars, avars, tvars, gvars, ivars>>

\* clusterReports resumes with centroidValues and waits for
\* assignments.array()
ReadFinalAssignments ==
    /\ pc = "centroidValues"
    /\ pc' = "finalAssignmentValues"
    /\ UNCHANGED <<reports, data, k, iter, centroids, assignments, newAssignments,
                   hasChanged, newCentroids, pending, stackInput, live, thrown,
                   error, clusters>>
    /\ UNCHANGED <<fvars, avars, tvars, gvars, ivars>>

\* clusterReports resumes with assignmentValues: group the reports, dispose
\* the three tensors, return
Materialize ==
    /\ pc = "finalAssignmentValues"
    /\ clusters' = BuildClusters(reports, assignments, centroids, k, 0)
    /\ live' = live \ {Tensor("data", 0), Tensor("centroids", iter),
                       Tensor("assignments", iter + 1)}
    /\ pc' = "returned"
    /\ UNCHANGED <<reports, data, k, iter, centroids, assignments, newAssignments,
                   hasChanged, newCentroids, pending, stackInput, thrown, error>>
    /\ UNCHANGED <<fvars, avars, tvars, gvars, ivars>>

Next ==
    \/ RejectInsufficient
    \/ StartKMeans
    \/ GatherRejects
    \/ AssignStep
    \/ ReadAssignments
    \/ CompareAssignments
    \/ UpdateCentroidsStep
    \/ CatchRejection
    \/ CallbackRuns
    \/ CallbackDropped
    \/ ReadCentroids
    \/ ReadFinalAssignments
    \/ Materialize

Spec == Init /\ [][Next]_vars

-----------------------------------------------------------------------------
(* Anomaly detection: inputs                                               *)

MaxBatch == 5       \* longest batch drawn freely from AnomalyPool
MaxChecked == 4     \* longest batch drawn from AnomalyPool for isReportAnomalous

\* Times are hours since the epoch in local time, so getHours() is t % 24.
HoursPerDay == 24
T0 == 472810        \* a submission time, 10:00 local
NowHour == 475212   \* the time the detectors run, 12:00 local

\* twoYearsAgo = now with the year set back by two: 730 or 731 days ago
TwoYearSpans == {730 * HoursPerDay, 731 * HoursPerDay}

\* estimatedAmount is a double; 0 stands for an absent amount
Shape(county, agency, amount, submittedAt, incidentDate) ==
    [county |-> county, agency |-> agency, estimatedAmount |-> amount,
     submittedAt |-> submittedAt, incidentDate |-> incidentDate]

AnomalyPool ==
    { Shape("Nairobi", "police", DInt(100), T0, T0 - 48),
      \* 03:00, inside the 24-hour window that starts at T0
      Shape("Nairobi", "police", DInt(100), T0 + 17, T0 - 48),
      \* exactly 24 hours after T0; the incident is 730.4 days before NowHour
      Shape("Nairobi", "police", DInt(5000), T0 + 24, NowHour - 17530),
      \* a month later, no amount
      Shape("Nairobi", "police", DZero, T0 + 720, T0),
      \* another group; the incident is six years before NowHour
      Shape("Mombasa", "tax", DInt(100), T0 + 1, NowHour - 52560) }

MkReport(shape, i) ==
    [id |-> i, county |-> shape.county, agency |-> shape.agency,
     estimatedAmount |-> shape.estimatedAmount,
     submittedAt |-> shape.submittedAt, incidentDate |-> shape.incidentDate]

MkBatch(shapes) == [i \in 1..Len(shapes) |-> MkReport(shapes[i], i)]

Repeat(x, n) == [i \in 1..n |-> x]

\* the amounts 0.1, 0.1 * 2^-600 and 2^1023
OneTenth == DDiv(DInt(1), DInt(10))
TinyAmount == [OneTenth EXCEPT !.e = @ - 600]
HugeAmount == [sign |-> 1, m |-> TwoTo52, e |-> EMax]

Counties13 ==
    <<"Nairobi", "Mombasa", "Kisumu", "Nakuru", "Eldoret", "Kiambu", "Machakos",
      "Meru", "Nyeri", "Kakamega", "Kilifi", "Garissa", "Turkana">>

\* Batches too long to be enumerated from the pool
NamedBatches ==
    { \* amounts 100, 105, 98, 102, 100000 in five different groups
      MkBatch(<< Shape("Nairobi", "police", DInt(100), T0, T0),
                 Shape("Mombasa", "police", DInt(105), T0, T0),
                 Shape("Kisumu", "police", DInt(98), T0, T0),
                 Shape("Nakuru", "police", DInt(102), T0, T0),
                 Shape("Eldoret", "police", DInt(100000), T0, T0) >>),
      \* amounts 22, 1, 1, 1, 1 in five different groups: the z-score of 22
      \* is 2 on the reals
      MkBatch(<< Shape("Nairobi", "police", DInt(22), T0, T0),
                 Shape("Mombasa", "police", DInt(1), T0, T0),
                 Shape("Kisumu", "police", DInt(1), T0, T0),
                 Shape("Nakuru", "police", DInt(1), T0, T0),
                 Shape("Eldoret", "police", DInt(1), T0, T0) >>),
      \* five amounts of 100 and one of 5000 submitted at 03:00
      MkBatch([i \in 1..6 |->
                 IF i < 6 THEN Shape("Nairobi", "tax", DInt(100), T0 + 48 * i, T0)
                 ELSE Shape("Kisumu", "tax", DInt(5000), T0 + 17, T0)]),
      \* ten amounts of 100 and one of 100000 whose incident is six years old
      MkBatch([i \in 1..11 |->
                 IF i # 4 THEN Shape("Nairobi", "tax", DInt(100), T0 + 48 * i, T0)
                 ELSE Shape("Kisumu", "tax", DInt(100000), T0, NowHour - 52560)]),
      \* seven amounts of 100 and one of 900
      MkBatch([i \in 1..8 |->
                 IF i # 8 THEN Shape("Nairobi", "tax", DInt(100), T0 + 48 * i, T0)
                 ELSE Shape("Kisumu", "tax", DInt(900), T0, T0)]),
      \* five reports of one group within one hour
      MkBatch(Repeat(Shape("Nairobi", "police", DZero, T0, T0), 4)
              \o << Shape("Nairobi", "police", DZero, T0 + 1, T0) >>),
      \* five reports of one group within a day, without amounts, the fourth
      \* submitted at 03:00
      MkBatch(<< Shape("Nairobi", "police", DZero, T0, T0),
                 Shape("Nairobi", "police", DZero, T0 + 5, T0),
                 Shape("Nairobi", "police", DZero, T0 + 10, T0),
                 Shape("Nairobi", "police", DZero, T0 + 17, T0),
                 Shape("Nairobi", "police", DZero, T0 + 20, T0) >>),
      \* the same five spread across 30 days
      MkBatch([i \in 1..5 |-> Shape("Nairobi", "police", DZero, T0 + 168 * (i - 1), T0)]),
      \* a burst of five in one group, five spread across 30 days in another
      MkBatch([i \in 1..10 |->
                 IF i <= 5 THEN Shape("Nairobi", "police", DZero, T0 + (i % 2), T0)
                 ELSE Shape("Mombasa", "tax", DZero, T0 + 168 * (i - 6), T0)]),
      \* seven and ten reports of one group within a day
      MkBatch([i \in 1..7 |-> Shape("Nairobi", "police", DZero, T0 + i, T0)]),
      MkBatch([i \in 1..12 |-> Shape("Nairobi", "police", DZero, T0 + (i % 10), T0)]),
      \* two bursts of five, the second starting inside the first day
      MkBatch([i \in 1..9 |->
                 Shape("Nairobi", "police", DZero, IF i <= 5 THEN T0 + i ELSE T0 + 20 + i, T0)]),
      \* 13 police reports from 13 counties with amounts 1, 3 (11 times) and
      \* 7: the amount score of the last is 62.5, and an incident 36500 hours
      \* before NowHour scores 62.50000000000001; it is the last report's,
      \* then the second's
      MkBatch([i \in 1..13 |->
                 Shape(Counties13[i], "police",
                       DInt(IF i = 1 THEN 1 ELSE IF i = 13 THEN 7 ELSE 3),
                       T0, IF i = 13 THEN NowHour - 36500 ELSE T0)]),
      MkBatch([i \in 1..13 |->
                 Shape(Counties13[i], "police",
                       DInt(IF i = 1 THEN 1 ELSE IF i = 13 THEN 7 ELSE 3),
                       T0, IF i = 2 THEN NowHour - 36500 ELSE T0)]),
      \* 51 police reports two days apart: 50 from Nairobi, one from Mombasa
      MkBatch([i \in 1..51 |->
                 Shape(IF i = 30 THEN "Mombasa" ELSE "Nairobi", "police", DZero,
                       T0 + 48 * i, T0)]),
      \* 102 tax reports: 100 from Kisumu spread over the years, two from
      \* Nakuru, all of them carrying the same amount
      MkBatch([i \in 1..102 |->
                 Shape(IF i \in {7, 70} THEN "Nakuru" ELSE "Kisumu", "tax", DInt(250),
                       T0 + 48 * i, T0)]),
      \* three equal amounts of 0.1: their sum rounds up, so the mean is one
      \* unit in the last place above the amounts
      MkBatch(Repeat(Shape("Nairobi", "police", OneTenth, T0, T0), 3)),
      \* three equal amounts of 0.1 * 2^-600: the mean is again one unit in
      \* the last place above them, and the square of that difference is
      \* below the smallest double
      MkBatch(Repeat(Shape("Nairobi", "police", TinyAmount, T0, T0), 3)),
      \* three equal amounts of 2^1023, whose sum is above the largest double
      MkBatch(Repeat(Shape("Nairobi", "police", HugeAmount, T0, T0), 3)) }

AnomalyBatches ==
    NamedBatches \cup
    UNION { { MkBatch(shapes) : shapes \in [1..n -> AnomalyPool] } : n \in 0..MaxBatch }

-----------------------------------------------------------------------------
(* Scores.  A score is a JavaScript number: the double the code computes,  *)
(* bit for bit.                                                            *)

ScoreOfInt(n) == DInt(n)

\* a.score < b.score, a.score === b.score, a.score <= b.score
ScoreLess(a, b) == DLess(a, b)
ScoreEq(a, b) == ~DLess(a, b) /\ ~DLess(b, a)
ScoreLeq(a, b) == ~DLess(b, a)
\* Math.min / Math.max: NaN when an argument is NaN
ScoreMin(a, b) ==
    IF IsNaN(a) \/ IsNaN(b) THEN DNaN ELSE IF ScoreLess(b, a) THEN b ELSE a
ScoreMax(a, b) ==
    IF IsNaN(a) \/ IsNaN(b) THEN DNaN ELSE IF ScoreLess(a, b) THEN b ELSE a

-----------------------------------------------------------------------------
(* Amount detector.  An Anomaly keeps reportId, type, severity, details    *)
(* and score; the reason text is left out.                                 *)

\* r.estimatedAmount && r.estimatedAmount > 0
hasAmount(r) == DLess(DZero, r.estimatedAmount)

\* The statistics of detectAmountAnomalies, computed in doubles in the order
\* of the code; every stage hands its result to the next.  (s \o <<>> is s,
\* evaluated.)

\* zScore = Math.abs((amount - mean) / stdDev) of every amount
StatsWith(mean, dev, stdDev) ==
    [n |-> Len(dev), mean |-> mean, stdDev |-> stdDev,
     zScore |-> [i \in 1..Len(dev) |-> DAbs(DDiv(dev[i], stdDev))] \o <<>>]

\* variance: the squares Math.pow(amount - mean, 2), that is dev * dev, are
\* summed from left to right and divided by n; stdDev = Math.sqrt(variance)
StatsOfDev(mean, dev, squares) ==
    StatsWith(mean, dev,
              DSqrt(DDiv(DSumFrom(squares, 1, Len(dev), DZero), DInt(Len(dev)))))

\* dev[i] = amount - mean
StatsAbout(mean, dev) ==
    StatsOfDev(mean, dev, [i \in 1..Len(dev) |-> DMul(dev[i], dev[i])] \o <<>>)

StatsOfValues(amounts, mean) ==
    StatsAbout(mean, [i \in 1..Len(amounts) |-> DSub(amounts[i], mean)] \o <<>>)

\* mean, stdDev and the zScore of every amount; mean: the amounts are summed
\* from left to right and divided by n
ComputeStats(amounts) ==
    StatsOfValues(amounts,
                  DDiv(DSumFrom(amounts, 1, Len(amounts), DZero), DInt(Len(amounts))))

\* the amount lists of the batches the specifications draw
PoolAmounts == {shape.estimatedAmount : shape \in AnomalyPool} \ {DZero}

KnownAmounts ==
    UNION { [1..n -> PoolAmounts] : n \in 3..Max2(MaxBatch, MaxChecked + 1) }
    \cup { a \in { LET withAmounts == SelectSeq(b, hasAmount)
                   IN  [i \in 1..Len(withAmounts) |-> withAmounts[i].estimatedAmount] :
                   b \in NamedBatches } : Len(a) >= 3 }

\* their statistics, computed once
KnownStats == { [of |-> a, is |-> ComputeStats(a)] : a \in KnownAmounts }

AmountStats(amounts) == Known(KnownStats, amounts, ComputeStats(amounts))

\* the thresholds 2, 2.5 and 3 of the z-score
Low == DInt(2)
Medium == DExact(1, <<5>>, 50, -1)
High == DInt(3)

\* zScore > t for the i-th amount; false when zScore is NaN
ZAbove(st, i, t) == DLess(t, st.zScore[i])

\* Math.min(100, zScore * 20)
AmountScore(st, i) ==
    ScoreMin(ScoreOfInt(100), DMul(st.zScore[i], DInt(20)))

\* the anomaly pushed for the i-th report with an amount
AmountAnomaly(r, st, i) ==
    [reportId |-> r.id,
     type |-> "unusual_amount",
     severity |-> IF ZAbove(st, i, High) THEN "high"
                  ELSE IF ZAbove(st, i, Medium) THEN "medium"
                  ELSE "low",
     details |-> [amount |-> r.estimatedAmount, mean |-> st.mean,
                  stdDev |-> st.stdDev, zScore |-> st.zScore[i]],
     score |-> AmountScore(st, i)]

\* the forEach over reportsWithAmounts
AmountFlags(rs, st) ==
    LET flagged == OrderedIdx({i \in 1..Len(rs) : ZAbove(st, i, Low)})
    IN  [p \in 1..Len(flagged) |-> AmountAnomaly(rs[flagged[p]], st, flagged[p])]

detectAmountAnomalies(rs) ==
    LET reportsWithAmounts == SelectSeq(rs, hasAmount)
    IN  IF Len(reportsWithAmounts) < 3 THEN <<>>
        ELSE AmountFlags(reportsWithAmounts,
                         AmountStats([i \in 1..Len(reportsWithAmounts) |->
                                         reportsWithAmounts[i].estimatedAmount]))

-----------------------------------------------------------------------------
(* Frequency detector                                                      *)

windowMs == 24      \* 24 * 60 * 60 * 1000 ms, in hours

GroupKey(r) == <<r.county, r.agency>>

\* the keys of the groups Map, in insertion order
GroupKeys(rs) == Distinct([i \in 1..Len(rs) |-> GroupKey(rs[i])])

\* groups.get(key): the reports of the key in batch order
GroupOf(rs, key) ==
    LET InGroup(r) == GroupKey(r) = key IN SelectSeq(rs, InGroup)

\* groupReports.sort((a, b) => a.submittedAt - b.submittedAt): the sort is
\* stable, so the place of rs[i] is the number of reports submitted earlier
\* plus the number submitted at the same time that precede it
SortBySubmittedAt(rs) ==
    LET Place(i) ==
            Cardinality({j \in 1..Len(rs) :
                            \/ rs[j].submittedAt < rs[i].submittedAt
                            \/ rs[j].submittedAt = rs[i].submittedAt /\ j < i}) + 1
    IN  [p \in 1..Len(rs) |-> rs[CHOOSE i \in 1..Len(rs) : Place(i) = p]]

\* the inner loop: count the reports from index j on up to the first one
\* submitted after windowEnd
WindowCount(sorted, j, windowEnd) ==
    Cardinality({m \in j..Len(sorted) :
                    \A q \in j..m : sorted[q].submittedAt <= windowEnd})

SpikeAnomalyUnclamped(r, count) ==
    [reportId |-> r.id,
     type |-> "frequency_spike",
     severity |-> IF count >= 10 THEN "high" ELSE IF count >= 7 THEN "medium" ELSE "low",
     details |-> [count |-> count, timeWindow |-> "24h", groupKey |-> GroupKey(r)],
     score |-> ScoreOfInt(count * 10)]

SpikeAnomaly(r, count) ==
    [reportId |-> r.id,
     type |-> "frequency_spike",
     severity |-> IF count >= 10 THEN "high" ELSE IF count >= 7 THEN "medium" ELSE "low",
     details |-> [count |-> count, timeWindow |-> "24h", groupKey |-> GroupKey(r)],
     score |-> ScoreOfInt(Min2(100, count * 10))]

\* mutant: the cursor moves on by one report, as after an unflagged window
AfterWindowNoSkip(i, count) == i + 1

\* the cursor after a flagged window of count reports starting at i:
\* i += count - 1, then the loop's i++
AfterWindow(i, count) == i + count

RECURSIVE ScanWindows(_, _)
\* the outer loop for (i = 0; i < sorted.length - 4; i++), with i one-based
ScanWindows(sorted, i) ==
    IF i > Len(sorted) - 4 THEN <<>>
    ELSE LET windowEnd == sorted[i].submittedAt + windowMs
             count     == 1 + WindowCount(sorted, i + 1, windowEnd)
         IN  IF count >= 5
             THEN [j \in 1..count |-> SpikeAnomaly(sorted[i + j - 1], count)]
                  \o ScanWindows(sorted, AfterWindow(i, count))
             ELSE ScanWindows(sorted, i + 1)

\* mutant: groups of exactly five reports are skipped as well
TooFewForSpikeOffByOne(groupReports) == Len(groupReports) <= 5

\* if (groupReports.length < 5) return
TooFewForSpike(groupReports) == Len(groupReports) < 5

RECURSIVE SpikesOfGroups(_, _)
\* groups.forEach
SpikesOfGroups(rs, keys) ==
    IF keys = <<>> THEN <<>>
    ELSE LET groupReports == GroupOf(rs, Head(keys))
         IN  (IF TooFewForSpike(groupReports) THEN <<>>
              ELSE ScanWindows(SortBySubmittedAt(groupReports), 1))
             \o SpikesOfGroups(rs, Tail(keys))

detectFrequencySpikes(rs) == SpikesOfGroups(rs, GroupKeys(rs))

-----------------------------------------------------------------------------
(* Geographic detector                                                     *)

\* reports.filter((r) => r.agency === agency && r.county === county)
MatchingReports(rs, agency, county) ==
    LET Matches(r) == r.agency = agency /\ r.county = county
    IN  SelectSeq(rs, Matches)

\* countyMap.get(county) of the agency
CountyCount(rs, agency, county) == Len(MatchingReports(rs, agency, county))

\* const percentage = (count / totalReports) * 100
Percentage(count, totalReports) ==
    DMul(DDiv(DInt(count), DInt(totalReports)), DInt(100))

\* Math.max(10, 100 - percentage * 10)
GeographicScore(percentage) ==
    ScoreMax(ScoreOfInt(10), DSub(DInt(100), DMul(percentage, DInt(10))))

\* the anomaly pushed for a report of an unusual county
GeographicAnomaly(r, percentage, count, totalReports) ==
    [reportId |-> r.id,
     type |-> "geographic_outlier",
     severity |-> "low",
     details |-> [county |-> r.county, agency |-> r.agency,
                  percentage |-> percentage, count |-> count,
                  totalReports |-> totalReports],
     score |-> GeographicScore(percentage)]

\* if (percentage < 2 && count <= 2): the anomalies of the matching reports
\* (flagged)
OutliersOfCounty(flagged, percentage, count, totalReports) ==
    IF DLess(percentage, DInt(2)) /\ count <= 2
    THEN [j \in 1..Len(flagged) |->
             GeographicAnomaly(flagged[j], percentage, count, totalReports)]
    ELSE <<>>

\* one county of the countyMap with its count
OutliersOfCount(flagged, count, totalReports) ==
    OutliersOfCounty(flagged, Percentage(count, totalReports), count, totalReports)

RECURSIVE OutlierCounties(_, _, _, _)
\* countyMap.forEach of one agency
OutlierCounties(rs, agency, counties, totalReports) ==
    IF counties = <<>> THEN <<>>
    ELSE OutliersOfCount(MatchingReports(rs, agency, Head(counties)),
                         CountyCount(rs, agency, Head(counties)), totalReports)
         \o OutlierCounties(rs, agency, Tail(counties), totalReports)

\* the reports of the agency in batch order
OfAgency(rs, agency) ==
    LET Matches(r) == r.agency = agency IN SelectSeq(rs, Matches)

\* the keys of the agency's county Map, in insertion order
AgencyCounties(rs, agency) ==
    LET rsA == OfAgency(rs, agency)
    IN  Distinct([i \in 1..Len(rsA) |-> rsA[i].county])

RECURSIVE OutliersOfAgencies(_, _)
\* agencyCounties.forEach
OutliersOfAgencies(rs, agencies) ==
    IF agencies = <<>> THEN <<>>
    ELSE LET agency       == Head(agencies)
             ofAgency     == AgencyCounties(rs, agency)
             totalReports == Len(OfAgency(rs, agency))
         IN  (IF totalReports < 10 THEN <<>>
              ELSE OutlierCounties(rs, agency, ofAgency, totalReports))
             \o OutliersOfAgencies(rs, Tail(agencies))

detectGeographicAnomalies(rs) ==
    OutliersOfAgencies(rs, Distinct([i \in 1..Len(rs) |-> rs[i].agency]))

-----------------------------------------------------------------------------
(* Timing detector                                                         *)

HoursPerYear == 8760    \* 365 * 24 * 60 * 60 * 1000 ms, in hours

\* report.submittedAt.getHours()
getHours(t) == t % HoursPerDay

\* first pass: submitted between 02:00 and 05:00
UnusualHours(rs) ==
    LET Unusual(r) == getHours(r.submittedAt) >= 2 /\ getHours(r.submittedAt) < 5
        flagged == SelectSeq(rs, Unusual)
    IN  [i \in 1..Len(flagged) |->
            [reportId |-> flagged[i].id,
             type |-> "timing_anomaly",
             severity |-> "low",
             details |-> [hour |-> getHours(flagged[i].submittedAt),
                          date |-> flagged[i].submittedAt],
             score |-> ScoreOfInt(30)]]

MsPerHour == 3600000

\* (Date.now() - report.incidentDate.getTime()) / (365 * 24 * 60 * 60 * 1000):
\* both operands are whole numbers of milliseconds below 2^53, and the
\* quotient is rounded once
YearsOf(hours) ==
    DRound(1, BMul(BNat(hours), BNat(MsPerHour)),
           BMul(BNat(HoursPerYear), BNat(MsPerHour)), 0)

\* Math.min(70, yearsDiff * 15)
ScoreOfYears(yearsDiff) == ScoreMin(ScoreOfInt(70), DMul(yearsDiff, DInt(15)))

\* the ages, at NowHour, of the incidents of the pool, with their yearsDiff,
\* computed once
KnownAges == {NowHour - shape.incidentDate : shape \in AnomalyPool}
KnownYears == { [of |-> h, is |-> YearsOf(h)] : h \in KnownAges }

YearsDiff(clock, incidentDate) ==
    Known(KnownYears, clock - incidentDate, YearsOf(clock - incidentDate))

OldIncidentScore(clock, incidentDate) ==
    ScoreOfYears(YearsDiff(clock, incidentDate))

\* the anomaly pushed for a report of an old incident
OldIncidentAnomaly(r, yearsDiff) ==
    [reportId |-> r.id,
     type |-> "timing_anomaly",
     severity |-> IF DLess(DInt(5), yearsDiff) THEN "medium" ELSE "low",
     details |-> [incidentDate |-> r.incidentDate, yearsDiff |-> yearsDiff],
     score |-> ScoreOfYears(yearsDiff)]

\* second pass: incidentDate before twoYearsAgo
OldIncidents(rs, clock, twoYearsAgo) ==
    LET Old(r) == r.incidentDate < twoYearsAgo
        flagged == SelectSeq(rs, Old)
    IN  [i \in 1..Len(flagged) |->
            OldIncidentAnomaly(flagged[i], YearsDiff(clock, flagged[i].incidentDate))]

detectTimingAnomalies(rs, clock, span) ==
    UnusualHours(rs) \o OldIncidents(rs, clock, clock - span)

-----------------------------------------------------------------------------
(* Aggregator                                                              *)

\* mutant: an anomaly already stored for the report is never replaced
ReplacesNever(anomaly, existing) == FALSE

\* if (!existing || anomaly.score > existing.score)
Replaces(anomaly, existing) == ScoreLess(existing.score, anomaly.score)

RECURSIVE MapSet(_, _)
\* anomalyMap after the forEach: one entry per reportId, in insertion order
MapSet(entries, anomaly) ==
    IF entries = <<>> THEN <<anomaly>>
    ELSE IF Head(entries).reportId = anomaly.reportId
         THEN <<IF Replaces(anomaly, Head(entries)) THEN anomaly ELSE Head(entries)>>
              \o Tail(entries)
         ELSE <<Head(entries)>> \o MapSet(Tail(entries), anomaly)

RECURSIVE AnomalyMap(_)
AnomalyMap(anomalies) ==
    IF anomalies = <<>> THEN <<>>
    ELSE MapSet(AnomalyMap(SubSeq(anomalies, 1, Len(anomalies) - 1)),
                anomalies[Len(anomalies)])

RECURSIVE InsertByScore(_, _)
InsertByScore(sorted, a) ==
    IF sorted = <<>> THEN <<a>>
    ELSE IF ScoreLeq(a.score, Head(sorted).score)
         THEN <<Head(sorted)>> \o InsertByScore(Tail(sorted), a)
         ELSE <<a>> \o sorted

RECURSIVE SortByScore(_)
\* .sort((a, b) => b.score - a.score), a stable sort
SortByScore(as) ==
    IF as = <<>> THEN <<>>
    ELSE InsertByScore(SortByScore(SubSeq(as, 1, Len(as) - 1)), as[Len(as)])

\* mutant: the map values are returned without sorting
deduplicateUnsorted(anomalies) == AnomalyMap(anomalies)

deduplicateAnomalies(anomalies) == SortByScore(AnomalyMap(anomalies))

\* mutant: the filter keeps the flagged reports instead
NormalReportsInverted(rs, anomalyIds) ==
    LET Flagged(r) == r.id \in anomalyIds IN SelectSeq(rs, Flagged)

\* reports.filter((r) => !anomalyIds.has(r.id))
NormalReports(rs, anomalyIds) ==
    LET Normal(r) == r.id \notin anomalyIds IN SelectSeq(rs, Normal)

AllDetectedUnlessAmountsScarce(amount, frequency, geographic, timing) ==
    IF amount = <<>> THEN <<>> ELSE amount \o frequency \o geographic \o timing

\* the detector outputs in the order detectAnomalies pushes them
AllDetected(amount, frequency, geographic, timing) ==
    amount \o frequency \o geographic \o timing

\* anomalies and normalReports of the AnomalyDetectionResult (the statistics
\* are left out)
AnomalyResult(rs, detected) ==
    IF rs = <<>> THEN [anomalies |-> <<>>, normalReports |-> <<>>]
    ELSE LET uniqueAnomalies == deduplicateAnomalies(detected)
             anomalyIds == {uniqueAnomalies[i].reportId : i \in 1..Len(uniqueAnomalies)}
         IN  [anomalies |-> uniqueAnomalies,
              normalReports |-> NormalReports(rs, anomalyIds)]

-----------------------------------------------------------------------------
(* The call detectAnomalies(batch)                                         *)

ClusterIdle ==
    /\ reports = <<>>
    /\ data = <<>>
    /\ k = 1
    /\ pc = "off"
    /\ iter = 0
    /\ centroids = <<>>
    /\ assignments = <<>>
    /\ newAssignments = <<>>
    /\ hasChanged = FALSE
    /\ newCentroids = <<>>
    /\ pending = {}
    /\ stackInput = <<"none">>
    /\ live = {}
    /\ thrown = "none"
    /\ error = "none"
    /\ clusters = <<>>
    /\ SimilarIdle

InitAnomaly ==
    /\ batch \in AnomalyBatches
    /\ now = NowHour
    /\ twoYears \in TwoYearSpans
    /\ apc = "idle"
    /\ amountOut = <<>>
    /\ frequencyOut = <<>>
    /\ geographicOut = <<>>
    /\ timingOut = <<>>
    /\ result = [anomalies |-> <<>>, normalReports |-> <<>>]
    /\ IsAnomalousIdle
    /\ ClusterIdle
    /\ TextIdle

\* detectAnomalies(reports); an empty batch returns before any detector runs
DetectAnomalies ==
    /\ apc = "idle"
    /\ apc' = "done"
    /\ amountOut' = IF batch = <<>> THEN <<>> ELSE detectAmountAnomalies(batch)
    /\ frequencyOut' = IF batch = <<>> THEN <<>> ELSE detectFrequencySpikes(batch)
    /\ geographicOut' = IF batch = <<>> THEN <<>> ELSE detectGeographicAnomalies(batch)
    /\ timingOut' = IF batch = <<>> THEN <<>>
                    ELSE detectTimingAnomalies(batch, now, twoYears)
    /\ result' = AnomalyResult(batch, AllDetected(amountOut', frequencyOut',
                                                  geographicOut', timingOut'))
    /\ UNCHANGED <<batch, now, twoYears>>
    /\ UNCHANGED <<cvars, fvars, tvars, gvars, ivars>>

NextAnomaly == DetectAnomalies

SpecAnomaly == InitAnomaly /\ [][NextAnomaly]_vars

-----------------------------------------------------------------------------
(* Properties of clusterReports                                            *)

Finished == pc \in {"returned", "failed"}

ClusterIdx == 1..Len(clusters)

\* C1: when clusterReports returns, the returned clusters partition the
\* batch: every report is a member of some cluster and no report is a member
\* of two clusters (or twice of one).
C1_ClustersPartitionReports ==
    pc = "returned" =>
        /\ UNION {Range(clusters[c].reports) : c \in ClusterIdx} = Range(reports)
        /\ \A c1, c2 \in ClusterIdx :
              c1 # c2 => Range(clusters[c1].reports) \cap Range(clusters[c2].reports) = {}
        /\ \A c \in ClusterIdx :
              Cardinality(Range(clusters[c].reports)) = Len(clusters[c].reports)

\* a call with k >= 2 on reports with different vectors has returned
C1_Witness ==
    /\ pc = "returned"
    /\ k >= 2
    /\ Len(reports) > k
    /\ \E i, j \in 1..Len(reports) : Vectors(reports)[i] # Vectors(reports)[j]

\* C2: every returned cluster has a member, its reportCount is its number of
\* members, and the reportCounts add up to the number of input reports.
C2_ReportCounts ==
    pc = "returned" =>
        /\ \A c \in ClusterIdx :
              /\ Len(clusters[c].reports) >= 1
              /\ clusters[c].characteristics.reportCount = Len(clusters[c].reports)
        /\ SumSeq([c \in ClusterIdx |-> clusters[c].characteristics.reportCount])
              = Len(reports)

\* a call in which clusters 1..k-1 received no report has returned
C2_Witness ==
    /\ pc = "returned"
    /\ k >= 2
    /\ Len(clusters) < k
    /\ Len(clusters) >= 1

\* C3 as claimed: a call with fewer reports than k fails with an error that
\* identifies insufficient data, and no assignment or update step has run.
C3_InsufficientDataIdentified ==
    (pc = "failed" /\ Len(reports) < k) =>
        /\ error = "Not enough reports"
        /\ assignments = <<>>
        /\ stackInput = <<"none">>

\* C4 as claimed: whenever tf.stack assembles the new centroid matrix, the
\* list holds exactly k entries and entry i is the centroid of cluster i.
C4_StackSeesAllCentroidsInOrder ==
    stackInput # <<"none">> =>
        /\ Len(stackInput) = k
        /\ \A i \in 1..Len(stackInput) : stackInput[i].cluster = i - 1

\* C5 as claimed: once clusterReports has returned or thrown, no tensor
\* allocated by the call is live.
C5_NoTensorLiveAfterCall ==
    Finished => live = {}

-----------------------------------------------------------------------------
(* Properties of detectAnomalies                                           *)

Detected == AllDetected(amountOut, frequencyOut, geographicOut, timingOut)

AnomalyIdx == 1..Len(result.anomalies)

FlaggedIds(anomalies) == {anomalies[i].reportId : i \in 1..Len(anomalies)}

\* C6: in the result each reportId has at most one anomaly; it is one of the
\* anomalies the detectors produced for that report and no anomaly produced
\* for that report has a higher score; every report the detectors flagged
\* has an anomaly in the result.
C6_OneAnomalyPerReportWithMaxScore ==
    apc = "done" =>
        /\ \A i, j \in AnomalyIdx :
              i # j => result.anomalies[i].reportId # result.anomalies[j].reportId
        /\ \A i \in AnomalyIdx :
              /\ \E d \in 1..Len(Detected) : Detected[d] = result.anomalies[i]
              /\ \A d \in 1..Len(Detected) :
                    Detected[d].reportId = result.anomalies[i].reportId
                        => ScoreLeq(Detected[d].score, result.anomalies[i].score)
        /\ FlaggedIds(Detected) = FlaggedIds(result.anomalies)

\* a report flagged by the amount detector and, with a higher score, by the
\* timing detector
C6_Witness ==
    /\ apc = "done"
    /\ \E a \in 1..Len(amountOut), t \in 1..Len(timingOut) :
          /\ amountOut[a].reportId = timingOut[t].reportId
          /\ ScoreLess(amountOut[a].score, timingOut[t].score)
          /\ \E i \in AnomalyIdx : result.anomalies[i] = timingOut[t]

\* C7: the anomalies of the result are in non-increasing order of score.
C7_AnomaliesSortedByScore ==
    apc = "done" =>
        \A i, j \in AnomalyIdx :
            i < j => ScoreLeq(result.anomalies[j].score, result.anomalies[i].score)

\* a result whose order differs from the order in which the anomalies were
\* stored
C7_Witness ==
    /\ apc = "done"
    /\ Len(result.anomalies) >= 3
    /\ result.anomalies # AnomalyMap(Detected)

\* C8: normalReports holds exactly the input reports without an anomaly in
\* the result, in input order, so every report is flagged or normal and
\* never both.
C8_NormalReportsAreTheComplement ==
    apc = "done" =>
        /\ \A i \in 1..Len(batch) :
              (batch[i] \in Range(result.normalReports))
                  <=> (batch[i].id \notin FlaggedIds(result.anomalies))
        /\ Range(result.normalReports) \subseteq Range(batch)
        /\ Len(result.normalReports) + Cardinality(FlaggedIds(result.anomalies))
              = Len(batch)

\* a result with flagged and normal reports
C8_Witness ==
    /\ apc = "done"
    /\ Len(result.anomalies) >= 2
    /\ Len(result.normalReports) >= 2

AmountsOf(rs) == [i \in 1..Len(rs) |-> rs[i].estimatedAmount]

\* C9 as claimed: for the amounts 100, 105, 98, 102, 100000 the amount
\* detector flags the report of 100000, only that one, with severity high.
C9_OnlyTheLargeAmountFlaggedHigh ==
    (apc = "done" /\ AmountsOf(batch) = <<DInt(100), DInt(105), DInt(98),
                                          DInt(102), DInt(100000)>>) =>
        /\ Len(amountOut) = 1
        /\ amountOut[1].reportId = batch[5].id
        /\ amountOut[1].severity = "high"

SpikeIds == {frequencyOut[i].reportId : i \in {j \in 1..Len(frequencyOut) :
                                                 frequencyOut[j].type = "frequency_spike"}}

GroupTimes(g) == {g[i].submittedAt : i \in 1..Len(g)}

\* all reports of the group lie within one 24-hour span
WithinOneDay(g) ==
    \A t1, t2 \in GroupTimes(g) : t2 - t1 <= windowMs

\* no five reports of the group lie within any 24-hour window
NoFiveInADay(g) ==
    \A i \in 1..Len(g) :
        Cardinality({j \in 1..Len(g) :
                        /\ g[j].submittedAt >= g[i].submittedAt
                        /\ g[j].submittedAt <= g[i].submittedAt + windowMs}) < 5

\* C10: every report of a county/agency group of at least five reports that
\* all lie within 24 hours is flagged frequency_spike, and no report of a
\* group without five reports in any 24-hour window is flagged.
C10_BurstsFlaggedSpreadGroupsNot ==
    apc = "done" =>
        \A key \in Range(GroupKeys(batch)) :
            LET g == GroupOf(batch, key)
            IN  /\ (Len(g) >= 5 /\ WithinOneDay(g))
                      => \A i \in 1..Len(g) : g[i].id \in SpikeIds
                /\ NoFiveInADay(g)
                      => \A i \in 1..Len(g) : g[i].id \notin SpikeIds

\* a batch with a burst group that is flagged and a group of five spread
\* over a month that is not
C10_Witness ==
    /\ apc = "done"
    /\ \E key \in Range(GroupKeys(batch)) :
          LET g == GroupOf(batch, key)
          IN  Len(g) = 5 /\ WithinOneDay(g) /\ \A i \in 1..5 : g[i].id \in SpikeIds
    /\ \E key \in Range(GroupKeys(batch)) :
          LET g == GroupOf(batch, key)
          IN  Len(g) = 5 /\ NoFiveInADay(g) /\ \A i \in 1..5 : g[i].id \notin SpikeIds

-----------------------------------------------------------------------------
(* Text analysis (src/src/lib/encryption.ts, analyzeText and its helpers). *)
(* A text is a string of ASCII characters; characters are one-character    *)
(* strings.                                                                *)

At(s, i) == SubSeq(s, i, i)

RECURSIVE ConcatRange(_, _, _)
\* ss[lo] \o ... \o ss[hi], by halves
ConcatRange(ss, lo, hi) ==
    IF lo > hi THEN ""
    ELSE IF lo = hi THEN ss[lo]
    ELSE LET mid == (lo + hi) \div 2
         IN  ConcatRange(ss, lo, mid) \o ConcatRange(ss, mid + 1, hi)

Concat(ss) == ConcatRange(ss, 1, Len(ss))

UpperCase == "ABCDEFGHIJKLMNOPQRSTUVWXYZ"
LowerCase == "abcdefghijklmnopqrstuvwxyz"
Digits == "0123456789"

CharsOf(s) == {At(s, i) : i \in 1..Len(s)}

WordChars == CharsOf(LowerCase) \cup CharsOf(UpperCase) \cup CharsOf(Digits) \cup {"_"}

\* the regex class \w
IsWordChar(c) == c \in WordChars

\* the ASCII characters of the regex class \s, which are also the ASCII
\* characters String.prototype.trim removes: space, tab, line feed, vertical
\* tab (U+000B), form feed and carriage return
Spaces == {" ", "\t", "\n", "", "\f", "\r"}

IsSpace(c) == c \in Spaces

\* one character of String.prototype.toLowerCase
LowerOf ==
    [c \in CharsOf(UpperCase) |->
        At(LowerCase, CHOOSE i \in 1..Len(UpperCase) : At(UpperCase, i) = c)]

LowerChar(c) == IF c \in DOMAIN LowerOf THEN LowerOf[c] ELSE c

toLowerCase(s) == Concat([i \in 1..Len(s) |-> LowerChar(At(s, i))])

\* .replace(/[^\w\s]/g, ' ')
ReplacePunctuation(s) ==
    Concat([i \in 1..Len(s) |->
              IF IsWordChar(At(s, i)) \/ IsSpace(At(s, i)) THEN At(s, i) ELSE " "])

\* .replace(/\s+/g, ' '): every maximal run of whitespace becomes one space
NormalizeWhitespace(s) ==
    Concat([i \in 1..Len(s) |->
              IF ~IsSpace(At(s, i)) THEN At(s, i)
              ELSE IF i > 1 /\ IsSpace(At(s, i - 1)) THEN "" ELSE " "])

\* String.prototype.trim
trim(s) ==
    LET solid == {i \in 1..Len(s) : ~IsSpace(At(s, i))}
    IN  IF solid = {} THEN ""
        ELSE SubSeq(s, CHOOSE i \in solid : \A j \in solid : i <= j,
                       CHOOSE i \in solid : \A j \in solid : i >= j)

cleanText(t) == trim(NormalizeWhitespace(ReplacePunctuation(toLowerCase(t))))

\* the non-empty pieces of s.split(separator), where seps holds the
\* characters the separator matches: the maximal runs of other characters
Pieces(s, seps) ==
    LET n == Len(s)
        starts == {i \in 1..n : At(s, i) \notin seps
                                /\ (i = 1 \/ At(s, i - 1) \in seps)}
        EndOf(i) == CHOOSE j \in i..n :
                        /\ \A m \in i..j : At(s, m) \notin seps
                        /\ (j = n \/ At(s, j + 1) \in seps)
        ord == OrderedIdx(starts)
    IN  [p \in 1..Len(ord) |-> SubSeq(s, ord[p], EndOf(ord[p]))]

\* text.split(' ').filter((word) => word.length > 0)
tokenize(t) == Pieces(t, {" "})

STOP_WORDS ==
    {"a", "an", "and", "are", "as", "at", "be", "by", "for", "from", "has", "he",
     "in", "is", "it", "its", "of", "on", "that", "the", "to", "was", "were",
     "will", "with", "i", "me", "my", "we", "our", "you", "your", "they", "them",
     "na", "ya", "wa", "ni", "kwa", "la", "za", "katika", "kuwa", "au", "lakini"}

NEGATIVE_KEYWORDS ==
    {"corrupt", "bribe", "illegal", "fraud", "theft", "embezzlement", "extortion",
     "demanded", "forced", "threatened", "refused", "denied", "stolen", "cheated",
     "bad", "terrible", "awful", "poor", "unfair", "unjust", "wrong",
     "rushwa", "ufisadi", "wizi", "uongo", "haramu"}

POSITIVE_KEYWORDS ==
    {"helped", "resolved", "fair", "honest", "transparent", "justice", "good",
     "excellent", "professional", "efficient", "quick", "helpful"}

\* the values of the Category enum, in the key order of CATEGORY_KEYWORDS
Categories ==
    <<"bribery", "extortion", "embezzlement", "nepotism", "procurement_fraud",
      "land_grabbing", "other">>

\* import type { Report, Category } from '@/types/report': a type-only import
\* is erased when the module is compiled, so it binds no value. The set holds
\* the names the module's imports bind at run time.
ValueImports == {}

ReferenceError(name) == "ReferenceError: " \o name \o " is not defined"

\* The keys of the table are the computed keys [Category.Bribery], ...: the
\* first of them reads the identifier Category, which has no binding, so the
\* evaluation of the table throws while the module is being loaded.
CATEGORY_KEYWORDS ==
    IF "Category" \notin ValueImports THEN ReferenceError("Category")
    ELSE
    [bribery |-> <<"bribe", "pay", "money", "cash", "rushwa", "demanded",
                   "asked for money">>,
     extortion |-> <<"extort", "threaten", "force", "demanded", "intimidate",
                     "coerce">>,
     embezzlement |-> <<"embezzle", "steal", "misappropriate", "funds",
                        "missing money">>,
     nepotism |-> <<"nepotism", "favoritism", "relative", "family", "friend",
                    "bias">>,
     procurement_fraud |-> <<"tender", "contract", "procurement", "bidding",
                             "supplier">>,
     land_grabbing |-> <<"land", "grabbed", "property", "title deed", "plot",
                         "eviction">>,
     other |-> <<>>]

\* The module's top-level statements run once, before any of its exports can
\* be called: the three word sets, then CATEGORY_KEYWORDS. The value is the
\* error that ends the evaluation, "none" when it completes.
ModuleEvaluation ==
    IF CATEGORY_KEYWORDS = ReferenceError("Category") THEN ReferenceError("Category")
    ELSE "none"

\* the words that take the first branch of analyzeSentiment's loop
NegativeMatches(words) ==
    Cardinality({i \in DOMAIN words : words[i] \in NEGATIVE_KEYWORDS})

\* the words that take the else-if branch
PositiveMatches(words) ==
    Cardinality({i \in DOMAIN words : /\ words[i] \notin NEGATIVE_KEYWORDS
                                      /\ words[i] \in POSITIVE_KEYWORDS})

\* score / matchCount against -0.2 and 0.2, compared as 5 * score against
\* -matchCount and matchCount
SentimentLabel(score, matchCount) ==
    IF matchCount > 0 /\ 5 * score < -matchCount THEN "negative"
    ELSE IF matchCount > 0 /\ 5 * score > matchCount THEN "positive"
    ELSE "neutral"

analyzeSentiment(words) ==
    LET negative == NegativeMatches(words)
        positive == PositiveMatches(words)
        score == positive - negative
        matchCount == negative + positive
    IN  [score |-> IF matchCount > 0 THEN Ratio(score, matchCount) ELSE Ratio(0, 1),
         label |-> SentimentLabel(score, matchCount),
         confidence |-> IF matchCount >= 10 THEN Ratio(1, 1)
                        ELSE Ratio(matchCount, 10)]

\* String.prototype.includes
Includes(hay, needle) ==
    \E i \in 1..(Len(hay) - Len(needle) + 1) :
        SubSeq(hay, i, i + Len(needle) - 1) = needle

\* Object.values(CATEGORY_KEYWORDS).flat()
AllCategoryKeywords ==
    UNION {Range(CATEGORY_KEYWORDS[Categories[c]]) : c \in DOMAIN Categories}

isCorruptionTerm(word) ==
    \/ word \in NEGATIVE_KEYWORDS
    \/ \E kw \in AllCategoryKeywords : Includes(kw, word)

\* Array.prototype.sort with a comparator b.key - a.key, keys[i] being the
\* key of items[i]: descending by key, equal keys keep their order
SortDescending(items, keys) ==
    LET Before(j, i) == \/ keys[j] > keys[i]
                        \/ (keys[j] = keys[i] /\ j < i)
    IN  [p \in 1..Len(items) |->
            items[CHOOSE i \in DOMAIN items :
                      Cardinality({j \in DOMAIN items : Before(j, i)}) = p - 1]]

\* items.slice(0, n): a negative n counts from the end
Take(items, n) ==
    SubSeq(items, 1, IF n < 0 THEN Max2(Len(items) + n, 0) ELSE Min2(n, Len(items)))

extractKeywords(words) ==
    LET counted == SelectSeq(words, LAMBDA w : ~(Len(w) < 3 \/ w \in STOP_WORDS))
        entries == Distinct(counted)
        keywords == [i \in DOMAIN entries |->
                        LET frequency == Cardinality({j \in DOMAIN counted :
                                                         counted[j] = entries[i]})
                        IN  [word |-> entries[i],
                             frequency |-> frequency,
                             relevance |-> frequency *
                                 (IF isCorruptionTerm(entries[i]) THEN 2 ELSE 1)]]
    IN  Take(SortDescending(keywords, [i \in DOMAIN keywords |-> keywords[i].relevance]),
             10)

\* the characters /[.!?]+/ matches
Terminators == {".", "!", "?"}

calculateTextStatistics(t) ==
    LET words == Pieces(t, Spaces)
        sentences == SelectSeq(Pieces(t, Terminators), LAMBDA x : Len(trim(x)) > 0)
        characters == Cardinality({i \in 1..Len(t) : ~IsSpace(At(t, i))})
        wordCount == Len(words)
        sentenceCount == Len(sentences)
    IN  [wordCount |-> wordCount,
         sentenceCount |-> sentenceCount,
         characterCount |-> characters,
         averageWordLength |->
             IF wordCount > 0
             THEN Ratio(SumSeq([i \in DOMAIN words |-> Len(words[i])]), wordCount)
             ELSE Ratio(0, 1),
         averageSentenceLength |->
             IF sentenceCount > 0 THEN Ratio(wordCount, sentenceCount)
             ELSE Ratio(0, 1)]

\* The averages of the statistics are quotients of two counts; the code holds
\* each as the double its division gives.
DOfRatio(r) == DDiv(DInt(r.num), DInt(r.den))

\* the doubles of the literals 206.835, 1.015 and 84.6
FleschBase == DDiv(DInt(206835), DInt(1000))
SentenceWeight == DDiv(DInt(1015), DInt(1000))
SyllableWeight == DDiv(DInt(846), DInt(10))

\* 206.835 - 1.015 * wordsPerSentence - 84.6 * syllablesPerWord with
\* syllablesPerWord = averageWordLength / 2, every step rounded to a double
FleschScore(averageWordLength, wordsPerSentence) ==
    DSub(DSub(FleschBase, DMul(SentenceWeight, wordsPerSentence)),
         DMul(SyllableWeight, DDiv(averageWordLength, DInt(2))))

\* Math.max(0, Math.min(100, score))
calculateReadabilityScore(stats) ==
    IF stats.sentenceCount = 0 \/ stats.wordCount = 0 THEN DZero
    ELSE ScoreMax(DZero,
                  ScoreMin(DInt(100),
                           FleschScore(DOfRatio(stats.averageWordLength),
                                       DOfRatio(stats.averageSentenceLength))))

\* a match of new RegExp(`\\b${keyword}\\b`, 'gi') starts at position i
RegexMatchAt(t, keyword, i) ==
    LET last == i + Len(keyword) - 1
    IN  /\ last <= Len(t)
        /\ (i = 1 \/ ~IsWordChar(At(t, i - 1)))
        /\ (last = Len(t) \/ ~IsWordChar(At(t, last + 1)))
        /\ toLowerCase(SubSeq(t, i, last)) = toLowerCase(keyword)

RECURSIVE RegexMatches(_, _, _)
\* (text.match(regex) || []).length: matches are taken left to right and do
\* not overlap
RegexMatches(t, keyword, from) ==
    LET hits == {i \in from..Len(t) : RegexMatchAt(t, keyword, i)}
    IN  IF hits = {} THEN 0
        ELSE LET first == CHOOSE i \in hits : \A j \in hits : i <= j
             IN  1 + RegexMatches(t, keyword, first + Len(keyword))

\* what one category keyword adds to its category's score
KeywordScore(t, keywords, keyword) ==
    LET matching == SelectSeq(keywords, LAMBDA kw : Includes(kw.word, keyword))
    IN  RegexMatches(t, keyword, 1) * 2
        + (IF matching = <<>> THEN 0 ELSE matching[1].relevance)

CategoryScore(t, keywords, category) ==
    LET categoryKeywords == CATEGORY_KEYWORDS[category]
    IN  SumSeq([i \in DOMAIN categoryKeywords |->
                   KeywordScore(t, keywords, categoryKeywords[i])])

suggestCategories(t, keywords) ==
    LET entries == SelectSeq([c \in DOMAIN Categories |->
                                 <<Categories[c], CategoryScore(t, keywords, Categories[c])>>],
                             LAMBDA e : e[2] > 0)
        top == Take(SortDescending(entries, [i \in DOMAIN entries |-> entries[i][2]]), 3)
    IN  [i \in DOMAIN top |-> top[i][1]]

analyzeText(t) ==
    LET cleanedText == cleanText(t)
        words == tokenize(cleanedText)
        keywords == extractKeywords(words)
        textStatistics == calculateTextStatistics(t)
    IN  [sentiment |-> analyzeSentiment(words),
         keywords |-> keywords,
         readabilityScore |-> calculateReadabilityScore(textStatistics),
         textStatistics |-> textStatistics,
         suggestedCategories |-> suggestCategories(cleanedText, keywords)]

calculateTextSimilarity(text1, text2) ==
    LET words1 == Range(tokenize(cleanText(text1)))
        words2 == Range(tokenize(cleanText(text2)))
        intersection == {w \in words1 : w \in words2}
        union == words1 \cup words2
    IN  IF Cardinality(union) > 0
        THEN Ratio(Cardinality(intersection), Cardinality(union))
        ELSE Ratio(0, 1)

-----------------------------------------------------------------------------
(* The calls analyzeText(text) and calculateTextSimilarity(text, other)    *)

MaxWords == 3
MaxChars == 3

Vocabulary == {"bribe", "money", "good", "office", "Land!"}
Alphabet == {"a", "B", " ", "."}

NamedTexts ==
    {"The officer demanded a bribe and threatened me",
     "The meeting was held at the county office on Tuesday",
     "",
     " \n\t ",
     "?!.",
     "bribe money tender tender tender land land land family family family",
     "bribe money bribe tender land family",
     "I paid a bribe. They took the money!",
     "He asked for money. I paid cash!",
     "Good and fair, helpful; honest.",
     "corrupt bribe fraud theft bad poor wrong illegal stolen denied refused",
     "The clerk was helpful but demanded a bribe",
     "BRIBE? Money."}

\* up to MaxWords words of the vocabulary separated by single spaces
WordTexts ==
    {Concat([i \in DOMAIN ws |-> IF i = 1 THEN ws[i] ELSE " " \o ws[i]]) :
        ws \in UNION {[1..n -> Vocabulary] : n \in 0..MaxWords}}

\* every string of up to MaxChars characters of the alphabet
CharTexts ==
    {Concat(cs) : cs \in UNION {[1..n -> Alphabet] : n \in 0..MaxChars}}

Texts == NamedTexts \cup WordTexts \cup CharTexts

OtherTexts(t) == {t} \cup NamedTexts \cup Vocabulary

InitText ==
    /\ moduleError = "none"
    /\ text \in Texts
    /\ other = ""
    /\ tpc = "call"
    /\ spc = "call"
    /\ analysis = NoAnalysis
    /\ similarity = Ratio(0, 1)
    /\ GroupsIdle
    /\ ClusterIdle
    /\ AnomalyIdle

\* A caller imports the module and calls analyzeText(text). The import
\* evaluates the module first: when that throws, the caller gets the error
\* and analyzeText never runs. Nothing inside its try block throws.
AnalyzeText ==
    /\ tpc = "call"
    /\ moduleError' = ModuleEvaluation
    /\ IF ModuleEvaluation = "none"
       THEN /\ analysis' = analyzeText(text)
            /\ tpc' = "returned"
       ELSE /\ analysis' = analysis
            /\ tpc' = "threw"
    /\ UNCHANGED <<text, other, spc, similarity>>
    /\ UNCHANGED <<cvars, fvars, avars, gvars, ivars>>

\* A caller imports the module and calls calculateTextSimilarity(text, text2);
\* a module whose evaluation threw throws the same error at every import.
CalculateTextSimilarity ==
    /\ spc = "call"
    /\ moduleError' = ModuleEvaluation
    /\ \E text2 \in OtherTexts(text) :
          /\ other' = text2
          /\ IF ModuleEvaluation = "none"
             THEN /\ similarity' = calculateTextSimilarity(text, text2)
                  /\ spc' = "returned"
             ELSE /\ similarity' = similarity
                  /\ spc' = "threw"
    /\ UNCHANGED <<text, tpc, analysis>>
    /\ UNCHANGED <<cvars, fvars, avars, gvars, ivars>>

NextText == AnalyzeText \/ CalculateTextSimilarity

SpecText == InitText /\ [][NextText]_vars

-----------------------------------------------------------------------------
(* Properties of analyzeText and calculateTextSimilarity                   *)

Analyzed == tpc = "returned"
Compared == spc = "returned"

\* the call has ended, with a result or with an error
AnalysisEnded == tpc \in {"returned", "threw"}
ComparisonEnded == spc \in {"returned", "threw"}

\* the tokens the analysis of a text works on
TokensOf(t) == Range(tokenize(cleanText(t)))

Lexicon == NEGATIVE_KEYWORDS \cup POSITIVE_KEYWORDS

\* C11: the analysis of a text whose lexicon matches are all
\* negative-lexicon words, and that has at least one, yields label
\* 'negative' and a score below 0.
C11_NegativeMatchesGiveNegativeLabel ==
    (/\ AnalysisEnded
     /\ TokensOf(text) \cap NEGATIVE_KEYWORDS # {}
     /\ TokensOf(text) \cap POSITIVE_KEYWORDS = {})
    => /\ Analyzed
       /\ analysis.sentiment.label = "negative"
       /\ analysis.sentiment.score.num < 0

\* C12: the analysis of a text none of whose tokens is in the negative or
\* the positive lexicon yields score 0, label 'neutral' and confidence 0.
C12_NoMatchesGiveNeutral ==
    (AnalysisEnded /\ TokensOf(text) \cap Lexicon = {})
    => /\ Analyzed
       /\ analysis.sentiment.score = Ratio(0, 1)
       /\ analysis.sentiment.label = "neutral"
       /\ analysis.sentiment.confidence = Ratio(0, 1)

\* C13: calculateTextSimilarity gives every text similarity 1 with itself,
\* and two texts with no token in common similarity 0.
C13_SelfSimilarityIsOne ==
    ComparisonEnded
    => /\ Compared
       /\ (other = text => similarity = Ratio(1, 1))
       /\ (TokensOf(text) \cap TokensOf(other) = {} => similarity = Ratio(0, 1))

HasBribeAndMoney == {"bribe", "money"} \subseteq TokensOf(text)

\* C14: the analysis of a text with the words 'bribe' and 'money' returns
\* at most 3 suggested categories, 'bribery' among them.
C14_BriberySuggested ==
    (AnalysisEnded /\ HasBribeAndMoney)
    => /\ Analyzed
       /\ Len(analysis.suggestedCategories) <= 3
       /\ "bribery" \in Range(analysis.suggestedCategories)

IsBlank(t) == \A i \in 1..Len(t) : IsSpace(At(t, i))

\* C15: analyzeText of an empty or whitespace-only text returns, with
\* sentiment score 0, label 'neutral', confidence 0, no keywords,
\* readability 0, all statistics 0 and no suggested categories.
C15_BlankTextGivesNeutralResult ==
    (AnalysisEnded /\ IsBlank(text))
       => /\ Analyzed
          /\ analysis.sentiment = [score |-> Ratio(0, 1), label |-> "neutral",
                                   confidence |-> Ratio(0, 1)]
          /\ analysis.keywords = <<>>
          /\ analysis.readabilityScore = DZero
          /\ analysis.textStatistics =
                 [wordCount |-> 0, sentenceCount |-> 0, characterCount |-> 0,
                  averageWordLength |-> Ratio(0, 1),
                  averageSentenceLength |-> Ratio(0, 1)]
          /\ analysis.suggestedCategories = <<>>

-----------------------------------------------------------------------------
(* The call findSimilarReports(targetReport, allReports, limit), which     *)
(* awaits clusterReports(allReports, Math.min(10, allReports.length))      *)

MaxPool == 2        \* largest pool passed to findSimilarReports
MaxLimit == 1       \* largest limit passed to findSimilarReports

SimilarPools ==
    UNION { { [i \in 1..n |-> WithId(shapes[i], i)] :
                shapes \in [1..n -> ClusterPool] } : n \in 0..MaxPool }

\* a report that is in no pool
Outsider == WithId(CHOOSE shape \in ClusterPool : shape.agency = "tax", 99)

InitSimilar ==
    /\ reports \in SimilarPools
    /\ data = <<>>
    /\ k = Min2(10, Len(reports))
    /\ targetReport \in Range(reports) \cup {Outsider}
    /\ limit \in 0..MaxLimit     \* a maximum number of reports, so not negative
    /\ fpc = "await"
    /\ similar = <<>>
    /\ pc = "call"
    /\ iter = 0
    /\ centroids = <<>>
    /\ assignments = <<>>
    /\ newAssignments = <<>>
    /\ hasChanged = FALSE
    /\ newCentroids = <<>>
    /\ pending = {}
    /\ stackInput = <<"none">>
    /\ live = {}
    /\ thrown = "none"
    /\ error = "none"
    /\ clusters = <<>>
    /\ AnomalyIdle
    /\ TextIdle

\* tf.tensor2d(vectors) with vectors = []: the shape of an empty array cannot
\* be inferred as two-dimensional and the call throws inside the try block
EmptyPoolRejected ==
    /\ pc = "call"
    /\ Len(reports) >= k
    /\ reports = <<>>
    /\ thrown' = "tensor2d() requires shape to be provided"
    /\ error' = CaughtAs("tensor2d() requires shape to be provided")
    /\ pc' = "failed"
    /\ UNCHANGED <<reports, data, k, iter, centroids, assignments, newAssignments,
                   hasChanged, newCentroids, pending, stackInput, live, clusters>>
    /\ UNCHANGED <<fvars, avars, tvars, gvars, ivars>>

\* clusters.find((cluster) => cluster.reports.some((r) => r.id === target.id))
TargetClusters(cs, target) ==
    SelectSeq(cs, LAMBDA c : \E i \in DOMAIN c.reports : c.reports[i].id = target.id)

OthersOfClusterUnlimited(cluster, target, n) ==
    SelectSeq(cluster.reports, LAMBDA r : r.id # target.id)

\* targetCluster.reports.filter((r) => r.id !== target.id).slice(0, limit)
OthersOfCluster(cluster, target, n) ==
    Take(SelectSeq(cluster.reports, LAMBDA r : r.id # target.id), n)

\* the continuation of findSimilarReports once clusterReports has settled:
\* a rejection is caught and answered with the empty list
FindSimilarReturn ==
    /\ fpc = "await"
    /\ pc \in {"returned", "failed"}
    /\ similar' = IF pc = "failed" THEN <<>>
                  ELSE LET found == TargetClusters(clusters, targetReport)
                       IN  IF found = <<>> THEN <<>>
                           ELSE OthersOfCluster(found[1], targetReport, limit)
    /\ fpc' = "returned"
    /\ UNCHANGED <<targetReport, limit>>
    /\ UNCHANGED <<cvars, avars, tvars, gvars, ivars>>

NextSimilar ==
    \/ EmptyPoolRejected
    \/ StartKMeans
    \/ GatherRejects
    \/ AssignStep
    \/ ReadAssignments
    \/ CompareAssignments
    \/ UpdateCentroidsStep
    \/ CatchRejection
    \/ CallbackRuns
    \/ CallbackDropped
    \/ ReadCentroids
    \/ ReadFinalAssignments
    \/ Materialize
    \/ FindSimilarReturn

SpecSimilar == InitSimilar /\ [][NextSimilar]_vars

-----------------------------------------------------------------------------
(* Properties of findSimilarReports and of clusterReports' error path      *)

\* the members of the returned clusters that contain the target
TargetClusterMembers ==
    UNION {Range(clusters[c].reports) :
              c \in {d \in ClusterIdx : \E r \in Range(clusters[d].reports) :
                                            r.id = targetReport.id}}

\* C16: findSimilarReports never raises; it returns at most limit reports,
\* each a member of the returned cluster that contains the target and none
\* the target itself, and the empty list when clustering fails or no cluster
\* contains the target.
C16_SimilarReportsFromTargetCluster ==
    /\ fpc \in {"await", "returned"}
    /\ fpc = "returned"
       => /\ Len(similar) <= limit
          /\ \A i \in DOMAIN similar :
                /\ similar[i].id # targetReport.id
                /\ pc = "returned"
                /\ similar[i] \in TargetClusterMembers
          /\ (pc = "failed" \/ TargetClusterMembers = {}) => similar = <<>>

C16_Witness ==
    /\ fpc = "returned"
    /\ pc = "returned"
    /\ Len(reports) = 2
    /\ limit = 1
    /\ Len(similar) = 1
    /\ similar[1].id # targetReport.id

\* C17 as claimed: the error raised by the numeric runtime inside
\* clusterReports is the error the caller of clusterReports receives.
C17_BackendErrorSurfacesUnchanged ==
    (pc = "failed" /\ thrown = "Pass at least one tensor to tf.stack")
    => error = thrown

-----------------------------------------------------------------------------
(* Properties of the detectors' guards                                     *)

Returned == apc = "done"

WithAmount == SelectSeq(batch, hasAmount)

\* what the frequency, geographic and timing detectors produced
OtherAnomalies == frequencyOut \o geographicOut \o timingOut

\* C18 as stated: with fewer than 3 amounts the amount detector returns
\* nothing and the result holds every anomaly the other three detectors
\* produced.
C18_EveryOtherAnomalyReturned ==
    (Returned /\ Len(WithAmount) < 3)
    => /\ amountOut = <<>>
       /\ \A i \in DOMAIN OtherAnomalies :
             OtherAnomalies[i] \in Range(result.anomalies)

\* C18 amended: with fewer than 3 amounts the amount detector returns nothing
\* and every report the other three detectors flag is in the result, with
\* the highest-scoring of the anomalies they produced for it.
C18_ScarceAmountsDoNotStopDetectors ==
    (Returned /\ Len(WithAmount) < 3)
    => /\ amountOut = <<>>
       /\ \A i \in DOMAIN OtherAnomalies :
             \E j \in AnomalyIdx :
                /\ result.anomalies[j].reportId = OtherAnomalies[i].reportId
                /\ result.anomalies[j] \in Range(OtherAnomalies)
                /\ ScoreLeq(OtherAnomalies[i].score, result.anomalies[j].score)

C18_Witness ==
    /\ Returned
    /\ Len(WithAmount) < 3
    /\ frequencyOut # <<>>
    /\ timingOut # <<>>
    /\ Len(result.anomalies) = 5

\* the numbers held by the details of an anomaly
DetailNumbers(a) ==
    IF a.type = "unusual_amount"
    THEN {a.details.amount, a.details.mean, a.details.stdDev, a.details.zScore}
    ELSE IF a.type = "frequency_spike" THEN {DInt(a.details.count)}
    ELSE IF a.type = "geographic_outlier"
    THEN {a.details.percentage, DInt(a.details.count), DInt(a.details.totalReports)}
    ELSE IF "yearsDiff" \in DOMAIN a.details THEN {a.details.yearsDiff}
    ELSE {DInt(a.details.hour)}

\* the reports with an amount above 0 all carry the same amount
EqualAmounts ==
    \A i, j \in DOMAIN WithAmount :
        WithAmount[i].estimatedAmount = WithAmount[j].estimatedAmount

\* C19 as claimed: when all the amounts above 0 are equal, the amount
\* detector flags none of their reports, and the score and every number in
\* the details of every anomaly of the result are finite (neither NaN nor
\* Infinity).
C19_EqualAmountsNotFlagged ==
    (Returned /\ EqualAmounts)
    => /\ amountOut = <<>>
       /\ \A j \in AnomalyIdx :
             /\ IsFinite(result.anomalies[j].score)
             /\ \A x \in DetailNumbers(result.anomalies[j]) : IsFinite(x)

ScoreInRange(a) ==
    /\ ~IsNaN(a.score)
    /\ ScoreLeq(ScoreOfInt(0), a.score)
    /\ ScoreLeq(a.score, ScoreOfInt(100))

\* C20: every anomaly a detector produces, and every anomaly of the result,
\* has a score within [0, 100].
C20_ScoresWithinRange ==
    Returned
    => /\ \A i \in DOMAIN Detected : ScoreInRange(Detected[i])
       /\ \A j \in AnomalyIdx : ScoreInRange(result.anomalies[j])

C20_Witness ==
    /\ Returned
    /\ \E i \in DOMAIN frequencyOut :
          /\ frequencyOut[i].details.count > 10
          /\ ScoreEq(frequencyOut[i].score, ScoreOfInt(100))
    /\ \E j \in AnomalyIdx : ScoreEq(result.anomalies[j].score, ScoreOfInt(100))

-----------------------------------------------------------------------------
(* Properties of kMeans and of the returned clusters                       *)

\* kMeans has been entered and control has left its loop
LeftLoop ==
    /\ pc \in {"converged", "centroidValues", "finalAssignmentValues", "returned",
               "rejected", "failed"}
    /\ assignments # <<>>

\* C21 as claimed: kMeans runs at most 100 iterations, and it leaves its
\* loop before the 100th iteration only when the assignment vector computed
\* in an iteration equals that of the previous iteration.
C21_StopsEarlyOnlyWhenUnchanged ==
    LeftLoop =>
        /\ iter <= maxIterations
        /\ iter < maxIterations => ~hasChanged

\* the rows of the data tensor that belong to the members of returned
\* cluster c
MemberRows(c) == ClusterPoints(data, assignments, clusters[c].id)

\* the float32 value x >= 0 as a multiple of 2^-64
Scaled(x) == IF x.m = <<>> THEN <<>> ELSE BMul(x.m, BPow2(x.e + 64))

\* row is the mean of the rows: in every feature, Len(rows) times its value
\* is the sum of theirs, without rounding
IsMeanOf(row, rows) ==
    \A f \in 1..5 :
        BMulSmall(Scaled(row[f]), Len(rows))
            = BSum([j \in 1..Len(rows) |-> Scaled(rows[j][f])])

\* C22 as claimed: when clusterReports returns, the centroid of every
\* returned cluster is the mean feature vector of the cluster's members.
C22_CentroidIsMeanOfMembers ==
    pc = "returned" =>
        \A c \in ClusterIdx : IsMeanOf(clusters[c].centroid, MemberRows(c))

\* the number of members of cluster c from agency a
AgencyCount(c, a) ==
    Cardinality({i \in 1..Len(clusters[c].reports) : clusters[c].reports[i].agency = a})

\* the position at which agency a is first seen among the members of cluster c
FirstSeen(c, a) ==
    CHOOSE i \in 1..Len(clusters[c].reports) :
        /\ clusters[c].reports[i].agency = a
        /\ \A j \in 1..(i - 1) : clusters[c].reports[j].agency # a

MemberAgencies(c) ==
    {clusters[c].reports[i].agency : i \in 1..Len(clusters[c].reports)}

\* C23 as claimed: the dominantAgency of a returned cluster has the maximum
\* member count, and among the agencies with that count it is the one first
\* seen in member order.
C23_DominantAgencyFirstSeenOnTies ==
    pc = "returned" =>
        \A c \in ClusterIdx :
            LET d == clusters[c].characteristics.dominantAgency
            IN  /\ d \in MemberAgencies(c)
                /\ \A a \in MemberAgencies(c) :
                      /\ AgencyCount(c, a) <= AgencyCount(c, d)
                      /\ AgencyCount(c, a) = AgencyCount(c, d)
                            => FirstSeen(c, d) <= FirstSeen(c, a)

\* C28 as claimed: a call with 1 <= k <= |R| completes by returning a
\* cluster list; clusterReports raises only when |R| < k.
C28_ReturnsWheneverEnoughReports ==
    (Finished /\ 1 <= k /\ k <= Len(reports)) =>
        /\ pc = "returned"
        /\ thrown = "none"

-----------------------------------------------------------------------------
(* Properties of the frequency detector's scan                             *)

\* the reports of a group in submission order
SortedGroup(key) == SortBySubmittedAt(GroupOf(batch, key))

\* the number of reports in the 24-hour window anchored at sorted[p]
InWindow(sorted, p) ==
    Cardinality({q \in p..Len(sorted) :
                    sorted[q].submittedAt <= sorted[p].submittedAt + windowMs})

\* the positions whose window holds at least five reports
SpikeStarts(sorted) == {p \in 1..Len(sorted) : InWindow(sorted, p) >= 5}

\* p lies inside the window anchored at q, behind its anchor
InsideWindowOf(sorted, p, q) == q < p /\ p < q + InWindow(sorted, q)

\* the anchors of the flagged windows: the spike starts that do not lie
\* inside the window of an earlier anchor
Anchors(sorted) ==
    CHOOSE A \in SUBSET SpikeStarts(sorted) :
        \A p \in SpikeStarts(sorted) :
            p \in A <=> ~\E q \in A : InsideWindowOf(sorted, p, q)

\* the frequency_spike anomalies the detector returned for a report
SpikesFor(id) == {i \in 1..Len(frequencyOut) : frequencyOut[i].reportId = id}

\* C24: a flagged window of c reports anchored at sorted index i is followed
\* by a scan from index i + c.  So the flagged windows are disjoint, a report
\* gets at most one frequency_spike anomaly, whose count is that of the
\* window it lies in, and a report inside a flagged window never anchors a
\* window of its own: what only such a window would hold is not flagged.
C24_ScanSkipsFlaggedWindow ==
    Returned =>
        \A g \in 1..Len(GroupKeys(batch)) :
            LET sorted  == SortedGroup(GroupKeys(batch)[g])
                anchors == Anchors(sorted)
            IN  /\ \A a, b \in anchors : a < b => a + InWindow(sorted, a) <= b
                /\ \A p \in 1..Len(sorted) :
                      LET holding == {a \in anchors :
                                         a <= p /\ p < a + InWindow(sorted, a)}
                      IN  /\ Cardinality(SpikesFor(sorted[p].id))
                                = Cardinality(holding)
                          /\ Cardinality(holding) <= 1
                          /\ \A i \in SpikesFor(sorted[p].id) : \A a \in holding :
                                frequencyOut[i].details.count = InWindow(sorted, a)

\* a batch in which a second spike starts inside a flagged window and
\* reaches a report behind that window, which is not flagged
C24_Witness ==
    /\ Returned
    /\ \E g \in 1..Len(GroupKeys(batch)) :
          LET sorted == SortedGroup(GroupKeys(batch)[g])
          IN  \E q \in Anchors(sorted) : \E p \in SpikeStarts(sorted) :
                 /\ InsideWindowOf(sorted, p, q)
                 /\ \E r \in p..Len(sorted) :
                       /\ r >= q + InWindow(sorted, q)
                       /\ sorted[r].submittedAt <= sorted[p].submittedAt + windowMs
                       /\ SpikesFor(sorted[r].id) = {}
                 /\ SpikesFor(sorted[p].id) # {}

-----------------------------------------------------------------------------
(* Properties of the timing detector's second pass                         *)

\* the anomalies of the second pass: they follow those of the first pass,
\* one per report submitted between 02:00 and 05:00
OldIncidentOut ==
    LET unusual == {i \in 1..Len(batch) : getHours(batch[i].submittedAt) \in 2..4}
    IN  SubSeq(timingOut, Cardinality(unusual) + 1, Len(timingOut))

\* the incident lies more than two years before the report's own submission
OldAtSubmission(r) == r.incidentDate < r.submittedAt - twoYears

\* C25 as claimed: a report is flagged for an old incident exactly when its
\* incidentDate is more than two years before its own submittedAt, whenever
\* the detector runs; the score is min(70, years * 15) and the severity
\* 'medium' above five years, else 'low', years counted up to the submission.
C25_OldIncidentRelativeToSubmission ==
    Returned =>
        /\ {OldIncidentOut[i].reportId : i \in 1..Len(OldIncidentOut)}
              = {batch[i].id : i \in {j \in 1..Len(batch) : OldAtSubmission(batch[j])}}
        /\ \A i \in 1..Len(OldIncidentOut) : \A j \in 1..Len(batch) :
              batch[j].id = OldIncidentOut[i].reportId =>
                  LET age == batch[j].submittedAt - batch[j].incidentDate
                  IN  /\ ScoreEq(OldIncidentOut[i].score,
                                 OldIncidentScore(batch[j].submittedAt,
                                                  batch[j].incidentDate))
                      /\ OldIncidentOut[i].severity =
                            IF age > 5 * HoursPerYear THEN "medium" ELSE "low"

-----------------------------------------------------------------------------
(* Properties of the sentiment score                                       *)

\* the token occurrences of the analysed text that belong to a lexicon
LexiconHits(lexicon) ==
    LET words == tokenize(cleanText(text))
    IN  Cardinality({i \in 1..Len(words) : words[i] \in lexicon})

\* C26: the analysis yields the sentiment score (negative matches -
\* positive matches) / matchCount, and 0 when nothing matches.
C26_ScoreIsNegativeMinusPositive ==
    AnalysisEnded =>
        LET negative == LexiconHits(NEGATIVE_KEYWORDS)
            positive == LexiconHits(POSITIVE_KEYWORDS)
        IN  /\ Analyzed
            /\ analysis.sentiment.score.num * (negative + positive)
                  = (negative - positive) * analysis.sentiment.score.den
            /\ negative + positive = 0 => analysis.sentiment.score.num = 0

-----------------------------------------------------------------------------
(* Duplicate grouping: findSimilarReportsByText(reports, threshold)        *)

MaxDocs == 3        \* longest batch of reports to group

\* report descriptions: the first two have the same tokens, the third shares
\* two of its three tokens with each of them and with the fourth
Descriptions ==
    {"bribe money", "Money, bribe!", "bribe money office", "office money", "good"}

\* the default 0.7, and 0.5
Thresholds == {Ratio(7, 10), Ratio(1, 2)}

DocBatches ==
    UNION { { [i \in 1..n |-> [id |-> i, description |-> d[i]]] :
                d \in [1..n -> Descriptions] } : n \in 0..MaxDocs }

\* similarity >= threshold, on ratios
AtLeast(sim, th) == sim.num * th.den >= th.num * sim.den

\* if (report2.id === report1.id || processed.has(report2.id)) return
Skipped(report1, report2, processed) ==
    report2.id = report1.id \/ report2.id \in processed

RECURSIVE InnerLoop(_, _, _, _, _)
\* the inner reports.forEach from index j on; acc holds similarReports and
\* the processed set
InnerLoop(rs, th, report1, j, acc) ==
    IF j > Len(rs) THEN acc
    ELSE LET report2 == rs[j]
         IN  IF Skipped(report1, report2, acc.processed)
             THEN InnerLoop(rs, th, report1, j + 1, acc)
             ELSE IF AtLeast(calculateTextSimilarity(report1.description,
                                                     report2.description), th)
                  THEN InnerLoop(rs, th, report1, j + 1,
                                 [similarReports |-> Append(acc.similarReports, report2),
                                  processed |-> acc.processed \cup {report2.id}])
                  ELSE InnerLoop(rs, th, report1, j + 1, acc)

RECURSIVE OuterLoop(_, _, _, _)
\* the outer reports.forEach from index i on
OuterLoop(rs, th, i, processed) ==
    IF i > Len(rs) THEN <<>>
    ELSE IF rs[i].id \in processed THEN OuterLoop(rs, th, i + 1, processed)
    ELSE LET acc == InnerLoop(rs, th, rs[i], 1,
                              [similarReports |-> <<rs[i]>>,
                               processed |-> processed \cup {rs[i].id}])
         IN  (IF Len(acc.similarReports) > 1 THEN <<acc.similarReports>> ELSE <<>>)
             \o OuterLoop(rs, th, i + 1, acc.processed)

findSimilarReportsByText(rs, th) == OuterLoop(rs, th, 1, {})

InitGroups ==
    /\ docs \in DocBatches
    /\ threshold \in Thresholds
    /\ gpc = "call"
    /\ groups = <<>>
    /\ moduleError = "none"
    /\ text = ""
    /\ other = ""
    /\ tpc = "off"
    /\ spc = "off"
    /\ analysis = NoAnalysis
    /\ similarity = Ratio(0, 1)
    /\ ClusterIdle
    /\ AnomalyIdle

\* A caller imports the module and calls findSimilarReportsByText; the
\* import evaluates the module first, and when that throws the call never
\* happens.
FindSimilarReportsByText ==
    /\ gpc = "call"
    /\ moduleError' = ModuleEvaluation
    /\ IF ModuleEvaluation = "none"
       THEN /\ groups' = findSimilarReportsByText(docs, threshold)
            /\ gpc' = "returned"
       ELSE /\ groups' = groups
            /\ gpc' = "threw"
    /\ UNCHANGED <<docs, threshold>>
    /\ UNCHANGED <<text, other, tpc, spc, analysis, similarity>>
    /\ UNCHANGED <<cvars, fvars, avars, ivars>>

NextGroups == FindSimilarReportsByText

SpecGroups == InitGroups /\ [][NextGroups]_vars

\* the groups that hold the report with the given id
GroupsHolding(id) ==
    {<<g, m>> \in (1..Len(groups)) \X (1..MaxDocs + 1) :
        m <= Len(groups[g]) /\ groups[g][m].id = id}

\* C27: findSimilarReportsByText returns only groups of at least two
\* reports, no report is a member of two groups or twice of one, and every
\* member of a group other than its first has similarity >= threshold with
\* the group's first report.
C27_GroupsAreDisjointAndSimilarToSeed ==
    gpc \in {"returned", "threw"} =>
        /\ gpc = "returned"
        /\ \A g \in 1..Len(groups) :
              /\ Len(groups[g]) >= 2
              /\ \A m \in 1..Len(groups[g]) : \E i \in 1..Len(docs) : groups[g][m] = docs[i]
              /\ \A m \in 2..Len(groups[g]) :
                    AtLeast(calculateTextSimilarity(groups[g][1].description,
                                                    groups[g][m].description),
                            threshold)
        /\ \A i \in 1..Len(docs) : Cardinality(GroupsHolding(docs[i].id)) <= 1

-----------------------------------------------------------------------------
(* The call isReportAnomalous(subject, batch)                              *)

CheckedBatches ==
    UNION { { MkBatch(shapes) : shapes \in [1..n -> AnomalyPool] } : n \in 1..MaxChecked }

\* result.anomalies.find((a) => a.reportId === report.id) || null
FindAnomaly(anomalies, id) ==
    LET Matches(a) == a.reportId = id
        found == SelectSeq(anomalies, Matches)
    IN  IF found = <<>> THEN <<>> ELSE <<Head(found)>>

\* detectAnomalies([...allReports, report]) and the search for the report's id
isReportAnomalous(report, allReports, clock, span) ==
    LET rs == Append(allReports, report)
        detected == AllDetected(detectAmountAnomalies(rs),
                                detectFrequencySpikes(rs),
                                detectGeographicAnomalies(rs),
                                detectTimingAnomalies(rs, clock, span))
    IN  FindAnomaly(AnomalyResult(rs, detected).anomalies, report.id)

InitIsAnomalous ==
    /\ batch \in CheckedBatches
    /\ now = NowHour
    /\ twoYears \in TwoYearSpans
    /\ apc = "idle"
    /\ amountOut = <<>>
    /\ frequencyOut = <<>>
    /\ geographicOut = <<>>
    /\ timingOut = <<>>
    /\ result = [anomalies |-> <<>>, normalReports |-> <<>>]
    /\ subject = <<>>
    /\ ipc = "idle"
    /\ verdict = <<>>
    /\ ClusterIdle
    /\ TextIdle

\* isReportAnomalous(subject, batch) for a report of the batch
IsReportAnomalous ==
    /\ ipc = "idle"
    /\ \E i \in 1..Len(batch) :
          /\ subject' = batch[i]
          /\ verdict' = isReportAnomalous(batch[i], batch, now, twoYears)
    /\ ipc' = "done"
    /\ UNCHANGED avars
    /\ UNCHANGED <<cvars, fvars, tvars, gvars>>

NextIsAnomalous == DetectAnomalies \/ IsReportAnomalous

SpecIsAnomalous == InitIsAnomalous /\ [][NextIsAnomalous]_vars

\* C29 as claimed: for a report of the batch, isReportAnomalous returns an
\* anomaly exactly when detectAnomalies(batch) holds an anomaly for the
\* report's id, and then one of the same type and score.
C29_SameVerdictAsBatchDetection ==
    (apc = "done" /\ ipc = "done") =>
        LET inBatch == FindAnomaly(result.anomalies, subject.id)
        IN  /\ verdict = <<>> <=> inBatch = <<>>
            /\ (verdict # <<>> /\ inBatch # <<>>) =>
                  /\ verdict[1].type = inBatch[1].type
                  /\ ScoreEq(verdict[1].score, inBatch[1].score)

-----------------------------------------------------------------------------
(* Properties of the amount detector on few amounts                        *)

\* C30 as claimed: for a batch in which fewer than 6 reports have an amount
\* above 0, the amount detector returns no anomaly, whatever the amounts are.
C30_FewAmountsNeverFlagged ==
    (Returned /\ Len(WithAmount) < 6) => amountOut = <<>>

=============================================================================
